---- MODULE Spec2Model ----
(***************************************************************************)
(* Model of the asynchronous webhook delivery subsystem of the BEC CRM     *)
(* worker (apps/worker/core/messaging.py): send_zapier_webhook, the        *)
(* Delivery Record table webhooks_out and the retry sweep                  *)
(* retry_failed_webhooks, executed by concurrent RQ workers.               *)
(***************************************************************************)
EXTENDS Integers, Sequences, FiniteSets, TLC

(***************************************************************************)
(* Bounds of the model.                                                    *)
(***************************************************************************)
\* Number of rows the webhooks_out table can hold when two workers run
\* concurrently; an INSERT into a full table fails and db.commit() raises.
MaxRecords == 2
\* Number of rows the table can hold when a single worker runs.
MaxRecordsSeq == 3

(***************************************************************************)
(* Program constants.                                                      *)
(***************************************************************************)
INITIAL_ATTEMPT_COUNT == 1
FAILED_THRESHOLD == 3
RETRY_CEILING == 3
RETRY_BATCH_LIMIT == 50
HTTP_OK == 200

Workers == {"w1", "w2"}

QUEUED == "queued"
SENT == "sent"
FAILED == "failed"
WebhookStatus == {QUEUED, SENT, FAILED}

\* Optional column values: NULL / None is the empty tuple.
None == <<>>
Some(x) == <<x>>

\* Values the three Zapier settings range over.
ZapierModes == {"dev_log", "production"}
HookUrls == {"", "https://hooks.zapier.com/catch"}
HmacSecrets == {"", "s3cr3t"}

\* send_zapier_webhook calls made by the event handlers: (event_type, payload).
EventCalls ==
    { [event_type |-> "client.created",
       payload |-> [client_id |-> "c1", message_type |-> "welcome_sms"]],
      [event_type |-> "membership.expiring_30d",
       payload |-> [client_id |-> "c1", message_type |-> "expiry_reminder"]] }

\* Values of datetime.utcnow().
Timestamps == {"2025-01-15T10:00:00"}

\* Outcomes of client.post: an HTTP response or a raised exception.
HttpOutcomes ==
    { [kind |-> "response", status_code |-> 200, text |-> "run-1"],
      [kind |-> "response", status_code |-> 500, text |-> "boom"],
      [kind |-> "exception", status_code |-> 0, text |-> "timed out"] }

NoOutcome == [kind |-> "none", status_code |-> 0, text |-> ""]

VARIABLES
    worker_settings,   \* the process-wide WorkerSettings instance
    webhooks_out,      \* the Delivery Record table, row id = index
    workers,           \* per worker: the call frame of the job it executes
    pool,              \* the worker processes that were started
    table_capacity,    \* rows the webhooks_out table can hold
    audit              \* per Delivery Record: history of what was done to it

VARIABLES
    feature_flags,     \* FEATURE_MESSAGING and FEATURE_GGLEAP_SYNC of the settings
    ggleap,            \* GGLEAP_API_KEY and the ggleap_links, ggleap_groups tables
    memberships,       \* per client: the rows of the memberships table
    today,             \* the current date
    ext_groups,        \* the access-control service: per user, its groups
    service_mode,      \* how the access-control service answers
    ctx,               \* per worker: the frame of the job around a send
    rq_jobs,           \* the jobs put on the RQ queues
    cron               \* per trigger: occurrences of its schedule so far

extVars == <<feature_flags, ggleap, memberships, today, ext_groups,
             service_mode, ctx, rq_jobs, cron>>

vars == <<worker_settings, webhooks_out, workers, pool, table_capacity, audit,
          extVars>>

(***************************************************************************)
(* Pure helpers of send_zapier_webhook.                                    *)
(***************************************************************************)
IsEnvelope(doc) == DOMAIN doc = {"timestamp", "event", "data"}

\* json.dumps(doc, separators=(',', ':'))
RECURSIVE JsonDumps(_)
JsonDumps(doc) ==
    IF IsEnvelope(doc)
    THEN "{\"timestamp\":\"" \o doc.timestamp \o "\",\"event\":\"" \o doc.event
         \o "\",\"data\":" \o JsonDumps(doc.data) \o "}"
    ELSE IF "client_id" \in DOMAIN doc
    THEN "{\"client_id\":\"" \o doc.client_id \o "\",\"message_type\":\""
         \o doc.message_type \o "\"}"
    ELSE "{\"message_type\":\"" \o doc.message_type \o "\"}"

\* hmac.new(key, msg, hashlib.sha256).hexdigest(), kept symbolic: equal
\* digests exactly for equal (key, message).
HmacSha256Hex(key, msg) == "hmac-sha256[" \o key \o "](" \o msg \o ")"

Envelope(now, event_type, payload) ==
    [timestamp |-> now, event |-> event_type, data |-> payload]

\* Mutant: key and message swapped in hmac.new.
Signature_KeyMsgSwapped(secret, payload_json) ==
    IF secret # "" THEN Some(HmacSha256Hex(payload_json, secret)) ELSE None

Signature(secret, payload_json) ==
    IF secret # "" THEN Some(HmacSha256Hex(secret, payload_json)) ELSE None

BaseHeaders ==
    ("Content-Type" :> "application/json") @@ ("User-Agent" :> "BEC-CRM/1.0")

Headers(signature) ==
    IF signature # None
    THEN ("X-Hook-Signature" :> ("sha256=" \o signature[1])) @@ BaseHeaders
    ELSE BaseHeaders

\* Mutant: log-only mode honoured only when no URL is configured.
DevLogMode_OnlyWithoutUrl(settings) ==
    settings.ZAPIER_MODE = "dev_log" /\ settings.ZAPIER_CATCH_HOOK_URL = ""

DevLogMode(settings) == settings.ZAPIER_MODE = "dev_log"

\* Mutant: the URL is tested against None, which the "" default never is.
UrlMissing_IsNone(settings) == settings.ZAPIER_CATCH_HOOK_URL = "None"

UrlMissing(settings) == settings.ZAPIER_CATCH_HOOK_URL = ""

\* Mutant: any HTTP response counts as delivered.
ResponseOk_AnyStatus(response) == response.kind = "response"

ResponseOk(response) ==
    response.kind = "response" /\ response.status_code = HTTP_OK

ErrorMsg(response) ==
    IF response.kind = "response"
    THEN "HTTP " \o ToString(response.status_code) \o ": " \o response.text
    ELSE response.text

(***************************************************************************)
(* Delivery Record operations.                                             *)
(***************************************************************************)
create_webhook_record(event_type, payload) ==
    [event |-> event_type, payload |-> payload, status |-> QUEUED,
     attempt_count |-> INITIAL_ATTEMPT_COUNT, last_error |-> None,
     zap_run_id |-> None, sent_at |-> None]

update_webhook_success(webhook, zap_run_id, now) ==
    [webhook EXCEPT !.status = SENT, !.sent_at = Some(now),
                    !.zap_run_id = Some(zap_run_id)]

\* Mutant: the record is marked Failed one attempt early.
update_webhook_failure_OffByOne(webhook, error_message) ==
    LET bumped == [webhook EXCEPT !.attempt_count = @ + 1,
                                  !.last_error = Some(error_message)]
    IN  IF bumped.attempt_count >= FAILED_THRESHOLD - 1
        THEN [bumped EXCEPT !.status = FAILED]
        ELSE bumped

update_webhook_failure(webhook, error_message) ==
    LET bumped == [webhook EXCEPT !.attempt_count = @ + 1,
                                  !.last_error = Some(error_message)]
    IN  IF bumped.attempt_count >= FAILED_THRESHOLD
        THEN [bumped EXCEPT !.status = FAILED]
        ELSE bumped

\* Mutant: the filter looks at attempt_count only.
RetrySelectable_AnyStatus(webhook) ==
    webhook.attempt_count < RETRY_CEILING

\* The filter of the sweep's query.
RetrySelectable(webhook) ==
    /\ webhook.status \in {QUEUED, FAILED}
    /\ webhook.attempt_count < RETRY_CEILING

\* Mutant: a resubmission updates the record it resubmits.
FinalizeTarget_Resubmitted(frame) ==
    IF frame.webhook # 0 THEN frame.webhook ELSE frame.webhook_record

\* The id send_zapier_webhook hands to update_webhook_success/failure.
FinalizeTarget(frame) == frame.webhook_record

(***************************************************************************)
(* Frames and initial state.                                               *)
(***************************************************************************)
IdleFrame ==
    [job |-> "idle", pc |-> "idle", event_type |-> "", payload |-> None,
     payload_json |-> "", headers |-> BaseHeaders, webhook_record |-> 0,
     response |-> NoOutcome, ret |-> "none", webhooks |-> {}, webhook |-> 0]

\* History kept for a Delivery Record: the record the sweep was resubmitting
\* when it was created (0 for a first send), the arguments of the creating
\* send_zapier_webhook call, the POSTs made for it, and writes to it.
NewAudit(parent, event_type, payload) ==
    [parent |-> parent, event_type |-> event_type, payload |-> payload,
     posts |-> 0, finalized |-> 0, foreign |-> FALSE,
     outcome |-> "none", request |-> None]

(***************************************************************************)
(* State outside the webhook sender: feature flags, the ggLeap tables and  *)
(* service, memberships, the date, the RQ queues.                          *)
(***************************************************************************)
Clients == {"c1", "c2"}

\* ggleap_links.ggleap_user_id of a linked client.
UserIdOf(client_id) == "u-" \o client_id

\* GgleapGroupType and the ggleap_group_id each key is mapped to.
GgleapGroupType == {"active", "expired"}
GroupIdOf(map_key) == "g-" \o map_key
GroupIds == { GroupIdOf(k) : k \in GgleapGroupType }

DefaultFlags == [FEATURE_MESSAGING |-> TRUE, FEATURE_GGLEAP_SYNC |-> FALSE]

NoEventPayload == [kind |-> "none", client_id |-> "", new_status |-> ""]

\* The frame of a job outside send_zapier_webhook: the process_event call,
\* the update_client_ggleap_group call (rpc, legs) and the sync loop.
IdleCtx ==
    [kind |-> "none", pc |-> "idle", event_type |-> "",
     payload |-> NoEventPayload, client_id |-> "", membership_status |-> "",
     rpc |-> "none", before |-> {}, legs |-> <<>>, todo |-> {},
     reconciled |-> <<>>, handler |-> "none", result |-> "none",
     published |-> <<>>, error |-> ""]

NoCron == [occurrences |-> 0, registered |-> FALSE]

\* Nothing but the webhook sender runs: default flags, empty ggLeap tables.
ExtQuiet ==
    /\ feature_flags = DefaultFlags
    /\ ggleap = [api_key |-> "", links |-> {}, groups |-> {}]
    /\ memberships = [c \in Clients |-> <<>>]
    /\ today = [day |-> 1, first_weekday |-> 0]
    /\ ext_groups = [c \in Clients |-> {}]
    /\ service_mode = "reliable"
    /\ ctx = [w \in Workers |-> IdleCtx]
    /\ rq_jobs = <<>>
    /\ cron = <<>>

Settings ==
    [ZAPIER_MODE : ZapierModes, ZAPIER_CATCH_HOOK_URL : HookUrls,
     ZAPIER_HMAC_SECRET : HmacSecrets]

\* Two concurrent workers.
Init ==
    /\ worker_settings \in Settings
    /\ webhooks_out = <<>>
    /\ workers = [w \in Workers |-> IdleFrame]
    /\ pool = Workers
    /\ table_capacity = MaxRecords
    /\ audit = <<>>
    /\ ExtQuiet

\* A single worker.
SeqInit ==
    /\ worker_settings \in Settings
    /\ webhooks_out = <<>>
    /\ workers = [w \in Workers |-> IdleFrame]
    /\ pool = {"w1"}
    /\ table_capacity = MaxRecordsSeq
    /\ audit = <<>>
    /\ ExtQuiet

(***************************************************************************)
(* A worker takes a job whose handler calls send_zapier_webhook.           *)
(***************************************************************************)
StartSend(w) ==
    /\ workers[w].job = "idle"
    /\ \E c \in EventCalls :
         workers' = [workers EXCEPT ![w] =
            [IdleFrame EXCEPT !.job = "send", !.pc = "send",
                              !.event_type = c.event_type,
                              !.payload = c.payload]]
    /\ UNCHANGED <<worker_settings, webhooks_out, pool, table_capacity, audit>>
    /\ UNCHANGED extVars

(***************************************************************************)
(* send_zapier_webhook, lines 14-54: the mode and URL checks, then the     *)
(* envelope, its JSON, the signature, the headers and the Delivery Record. *)
(***************************************************************************)
SendDevLog(w) ==
    /\ workers[w].pc = "send"
    /\ DevLogMode(worker_settings)
    /\ workers' = [workers EXCEPT ![w].pc = "returned", ![w].ret = "true"]
    /\ UNCHANGED <<worker_settings, webhooks_out, pool, table_capacity, audit>>
    /\ UNCHANGED extVars

SendNoUrl(w) ==
    /\ workers[w].pc = "send"
    /\ ~DevLogMode(worker_settings)
    /\ UrlMissing(worker_settings)
    /\ workers' = [workers EXCEPT ![w].pc = "returned", ![w].ret = "false"]
    /\ UNCHANGED <<worker_settings, webhooks_out, pool, table_capacity, audit>>
    /\ UNCHANGED extVars

SendCreateRecord(w) ==
    /\ workers[w].pc = "send"
    /\ ~DevLogMode(worker_settings)
    /\ ~UrlMissing(worker_settings)
    /\ Len(webhooks_out) < table_capacity
    /\ \E now \in Timestamps :
         LET f == workers[w]
             webhook_payload == Envelope(now, f.event_type, f.payload)
             payload_json == JsonDumps(webhook_payload)
             signature == Signature(worker_settings.ZAPIER_HMAC_SECRET,
                                    payload_json)
         IN  /\ webhooks_out' = Append(webhooks_out,
                    create_webhook_record(f.event_type, webhook_payload))
             /\ audit' = Append(audit, NewAudit(f.webhook, f.event_type,
                                                      f.payload))
             /\ workers' = [workers EXCEPT
                    ![w].pc = "post",
                    ![w].payload_json = payload_json,
                    ![w].headers = Headers(signature),
                    ![w].webhook_record = Len(webhooks_out) + 1]
    /\ UNCHANGED <<worker_settings, pool, table_capacity>>
    /\ UNCHANGED extVars

\* The table is full: db.commit() in create_webhook_record raises, and the
\* exception leaves send_zapier_webhook (line 54 is outside the try block).
SendCreateRaises(w) ==
    /\ workers[w].pc = "send"
    /\ ~DevLogMode(worker_settings)
    /\ ~UrlMissing(worker_settings)
    /\ Len(webhooks_out) >= table_capacity
    /\ workers' = [workers EXCEPT ![w].pc = "raised"]
    /\ UNCHANGED <<worker_settings, webhooks_out, pool, table_capacity, audit>>
    /\ UNCHANGED extVars

(***************************************************************************)
(* send_zapier_webhook, lines 56-62: the HTTP POST and its outcome.        *)
(***************************************************************************)
HttpPost(w) ==
    /\ workers[w].pc = "post"
    /\ \E outcome \in HttpOutcomes :
         LET f == workers[w]
             id == f.webhook_record
         IN  /\ workers' = [workers EXCEPT ![w].pc = "finalize",
                                           ![w].response = outcome]
             /\ audit' = [audit EXCEPT
                    ![id].posts = @ + 1,
                    ![id].request = Some([url |-> worker_settings.ZAPIER_CATCH_HOOK_URL,
                                          content |-> f.payload_json,
                                          headers |-> f.headers])]
    /\ UNCHANGED <<worker_settings, webhooks_out, pool, table_capacity>>
    /\ UNCHANGED extVars

(***************************************************************************)
(* send_zapier_webhook, lines 64-78: the record is marked and the result   *)
(* returned.                                                               *)
(***************************************************************************)
SendFinalize(w) ==
    /\ workers[w].pc = "finalize"
    /\ \E now \in Timestamps :
         LET f == workers[w]
             id == FinalizeTarget(f)
             ok == ResponseOk(f.response)
         IN  /\ webhooks_out' =
                  IF id \in DOMAIN webhooks_out
                  THEN [webhooks_out EXCEPT ![id] =
                          IF ok
                          THEN update_webhook_success(@, f.response.text, now)
                          ELSE update_webhook_failure(@, ErrorMsg(f.response))]
                  ELSE webhooks_out
             /\ audit' =
                  IF id \in DOMAIN audit
                  THEN [audit EXCEPT
                          ![id].finalized = @ + 1,
                          ![id].foreign = @ \/ (id # f.webhook_record),
                          ![id].outcome = IF ok THEN "ok" ELSE "fail"]
                  ELSE audit
             /\ workers' = [workers EXCEPT
                    ![w].pc = "returned",
                    ![w].ret = IF ok THEN "true" ELSE "false"]
    /\ UNCHANGED <<worker_settings, pool, table_capacity>>
    /\ UNCHANGED extVars

\* The job that called send_zapier_webhook ends.
SendJobEnd(w) ==
    /\ workers[w].job = "send"
    /\ workers[w].pc \in {"returned", "raised"}
    /\ workers' = [workers EXCEPT ![w] = IdleFrame]
    /\ UNCHANGED <<worker_settings, webhooks_out, pool, table_capacity, audit>>
    /\ UNCHANGED extVars

(***************************************************************************)
(* retry_failed_webhooks, the sweep.                                       *)
(***************************************************************************)
StartSweep(w) ==
    /\ workers[w].job = "idle"
    /\ workers' = [workers EXCEPT ![w] =
          [IdleFrame EXCEPT !.job = "sweep", !.pc = "sweep_query"]]
    /\ UNCHANGED <<worker_settings, webhooks_out, pool, table_capacity, audit>>
    /\ UNCHANGED extVars

\* Lines 147-150: the query; without ORDER BY any RETRY_BATCH_LIMIT of the
\* matching rows may come back, in any order.
SweepQuery(w) ==
    /\ workers[w].pc = "sweep_query"
    /\ LET matching == { i \in DOMAIN webhooks_out :
                            RetrySelectable(webhooks_out[i]) }
       IN  \E batch \in SUBSET matching :
             /\ Cardinality(batch) =
                  IF Cardinality(matching) <= RETRY_BATCH_LIMIT
                  THEN Cardinality(matching) ELSE RETRY_BATCH_LIMIT
             /\ workers' = [workers EXCEPT ![w].pc = "sweep_loop",
                                           ![w].webhooks = batch]
    /\ UNCHANGED <<worker_settings, webhooks_out, pool, table_capacity, audit>>
    /\ UNCHANGED extVars

\* Lines 152-154: the next webhook of the batch is resubmitted.
SweepResubmit(w) ==
    /\ workers[w].pc = "sweep_loop"
    /\ \E id \in workers[w].webhooks :
         workers' = [workers EXCEPT
            ![w].pc = "send",
            ![w].webhook = id,
            ![w].webhooks = @ \ {id},
            ![w].event_type = webhooks_out[id].event,
            ![w].payload = webhooks_out[id].payload]
    /\ UNCHANGED <<worker_settings, webhooks_out, pool, table_capacity, audit>>
    /\ UNCHANGED extVars

\* Lines 155-160: the result is logged, an exception is caught and logged,
\* and the loop goes on.
SweepAfterSend(w) ==
    /\ workers[w].job = "sweep"
    /\ workers[w].pc \in {"returned", "raised"}
    /\ workers' = [workers EXCEPT ![w] =
          [IdleFrame EXCEPT !.job = "sweep", !.pc = "sweep_loop",
                            !.webhooks = workers[w].webhooks]]
    /\ UNCHANGED <<worker_settings, webhooks_out, pool, table_capacity, audit>>
    /\ UNCHANGED extVars

SweepEnd(w) ==
    /\ workers[w].pc = "sweep_loop"
    /\ workers[w].webhooks = {}
    /\ workers' = [workers EXCEPT ![w] = IdleFrame]
    /\ UNCHANGED <<worker_settings, webhooks_out, pool, table_capacity, audit>>
    /\ UNCHANGED extVars

\* The steps of a job in progress on worker w.
JobStep(w) ==
    \/ SendDevLog(w)
    \/ SendNoUrl(w)
    \/ SendCreateRecord(w)
    \/ SendCreateRaises(w)
    \/ HttpPost(w)
    \/ SendFinalize(w)
    \/ SendJobEnd(w)
    \/ SweepQuery(w)
    \/ SweepResubmit(w)
    \/ SweepAfterSend(w)
    \/ SweepEnd(w)

Next ==
    \E w \in pool :
        \/ StartSend(w)
        \/ StartSweep(w)
        \/ JobStep(w)

Spec == Init /\ [][Next]_vars

SeqSpec == SeqInit /\ [][Next]_vars

\* Every started job runs to its end, and the sweep job is started again
\* and again (scheduler.py, "0 * * * *").
Fairness ==
    \A w \in Workers :
        /\ WF_vars(w \in pool /\ JobStep(w))
        /\ SF_vars(w \in pool /\ StartSweep(w))

FairSeqSpec == SeqSpec /\ Fairness

TypeOK ==
    /\ Len(webhooks_out) <= table_capacity
    /\ Len(audit) = Len(webhooks_out)
    /\ \A i \in DOMAIN webhooks_out :
         /\ webhooks_out[i].status \in WebhookStatus
         /\ webhooks_out[i].attempt_count \in Nat
    /\ \A w \in Workers :
         workers[w].pc \in {"idle", "send", "post", "finalize", "returned",
                            "raised", "sweep_query", "sweep_loop"}

(***************************************************************************)
(* Derived history: the first send a record descends from, and what was    *)
(* attempted for that original event.                                      *)
(***************************************************************************)
RECURSIVE Root(_)
Root(i) == IF audit[i].parent = 0 THEN i ELSE Root(audit[i].parent)

Lineage(r) == { i \in DOMAIN audit : Root(i) = r }

RECURSIVE SumPosts(_)
SumPosts(S) ==
    IF S = {} THEN 0
    ELSE LET i == CHOOSE j \in S : TRUE
         IN  audit[i].posts + SumPosts(S \ {i})

PostsFor(r) == SumPosts(Lineage(r))

FailuresFor(r) ==
    Cardinality({ i \in Lineage(r) : audit[i].outcome = "fail" })

KeepsFailing(r) == \A i \in Lineage(r) : audit[i].outcome # "ok"

Settled(r) == \A i \in Lineage(r) : audit[i].outcome # "none"

IsOriginal(r) == r \in DOMAIN audit /\ audit[r].parent = 0

LiveWithUrl ==
    /\ worker_settings.ZAPIER_MODE # "dev_log"
    /\ worker_settings.ZAPIER_CATCH_HOOK_URL # ""

(***************************************************************************)
(* C1. In live mode with a URL configured, when delivery of one event has  *)
(* failed three times in a row (the first send and two resubmissions by    *)
(* the sweep), the event's Delivery Record has status Failed,              *)
(* attempt_count 3 and a non-empty last_error.                             *)
(***************************************************************************)
C1_ThreeFailuresEndFailed ==
    \A r \in DOMAIN webhooks_out :
        (/\ LiveWithUrl
         /\ IsOriginal(r)
         /\ Settled(r)
         /\ KeepsFailing(r)
         /\ FailuresFor(r) = 3)
        => /\ webhooks_out[r].status = FAILED
           /\ webhooks_out[r].attempt_count = 3
           /\ webhooks_out[r].last_error # None
           /\ webhooks_out[r].last_error # Some("")

(***************************************************************************)
(* C2. A Delivery Record's attempt_count never decreases, and in every     *)
(* reachable state its status is Failed if and only if attempt_count >= 3  *)
(* and its latest delivery attempt did not succeed.                        *)
(***************************************************************************)
C2_FailedIff ==
    \A i \in DOMAIN webhooks_out :
        webhooks_out[i].status = FAILED
        <=> (webhooks_out[i].attempt_count >= 3 /\ audit[i].outcome = "fail")

C2_AttemptNeverDecreases ==
    \A i \in DOMAIN webhooks_out :
        /\ i \in DOMAIN webhooks_out'
        /\ webhooks_out'[i].attempt_count >= webhooks_out[i].attempt_count

C2_AttemptMonotoneFailedIff ==
    [] C2_FailedIff /\ [][C2_AttemptNeverDecreases]_vars

\* A delivery attempt failed, the count went up, and the record is not Failed.
C2_Witness ==
    \E i \in DOMAIN webhooks_out :
        /\ audit[i].outcome = "fail"
        /\ webhooks_out[i].attempt_count = 2
        /\ webhooks_out[i].status = QUEUED

(***************************************************************************)
(* C3. No Delivery Record is both Sent and Failed, and once a record is    *)
(* Sent no later operation changes its attempt_count or its status.        *)
(***************************************************************************)
C3_SentExcludesFailed ==
    \A i \in DOMAIN webhooks_out :
        (webhooks_out[i].sent_at # None \/ webhooks_out[i].zap_run_id # None
            \/ audit[i].outcome = "ok")
        => webhooks_out[i].status = SENT /\ webhooks_out[i].status # FAILED

C3_SentIsFrozen ==
    \A i \in DOMAIN webhooks_out :
        webhooks_out[i].status = SENT
        => /\ i \in DOMAIN webhooks_out'
           /\ webhooks_out'[i].status = SENT
           /\ webhooks_out'[i].attempt_count = webhooks_out[i].attempt_count

C3_SentTerminal ==
    [] C3_SentExcludesFailed /\ [][C3_SentIsFrozen]_vars

\* A record is Sent while a sweep that selected records is resubmitting and
\* has just finished a send of its own.
C3_Witness ==
    \E i \in DOMAIN webhooks_out, w \in Workers :
        /\ webhooks_out[i].status = SENT
        /\ workers[w].job = "sweep"
        /\ workers[w].pc = "returned"
        /\ workers[w].webhook_record # i

(***************************************************************************)
(* C4. In live mode with a URL configured send_zapier_webhook returns true *)
(* if and only if the POST returned HTTP 200; on 200 the record created by *)
(* the call ends Sent with sent_at and the run id stored and attempt_count *)
(* unchanged; on any other outcome its attempt_count goes up by exactly 1  *)
(* and last_error is set.                                                  *)
(***************************************************************************)
Got200(response) == response.kind = "response" /\ response.status_code = 200

C4_FinalizeStep ==
    \A w \in Workers :
        (workers[w].pc = "finalize" /\ workers'[w].pc = "returned")
        => LET id == workers[w].webhook_record
               before == webhooks_out[id]
               after == webhooks_out'[id]
               response == workers[w].response
           IN  /\ workers'[w].ret = "true" <=> Got200(response)
               /\ workers'[w].ret = "false" <=> ~Got200(response)
               /\ Got200(response) =>
                    /\ after.status = SENT
                    /\ after.sent_at # None
                    /\ after.zap_run_id = Some(response.text)
                    /\ after.attempt_count = before.attempt_count
               /\ ~Got200(response) =>
                    /\ after.attempt_count = before.attempt_count + 1
                    /\ after.last_error # None

C4_ReturnedValue ==
    \A w \in Workers :
        (LiveWithUrl /\ workers[w].pc = "returned")
        => /\ workers[w].ret = "true" <=> Got200(workers[w].response)
           /\ workers[w].ret = "false" <=> ~Got200(workers[w].response)
           /\ workers[w].webhook_record \in DOMAIN audit
           /\ audit[workers[w].webhook_record].posts = 1

C4_ReturnMatchesPost == [] C4_ReturnedValue /\ [][C4_FinalizeStep]_vars

\* One send has returned true after a 200 and another false after a non-200.
C4_Witness ==
    \E w, v \in Workers :
        /\ workers[w].pc = "returned" /\ workers[w].ret = "true"
        /\ workers[w].response.status_code = 200
        /\ webhooks_out[workers[w].webhook_record].status = SENT
        /\ workers[v].pc = "returned" /\ workers[v].ret = "false"
        /\ workers[v].response.status_code = 500
        /\ webhooks_out[workers[v].webhook_record].attempt_count = 2

(***************************************************************************)
(* C5. Under any interleaving of jobs and sweeps a Delivery Record is      *)
(* created (Queued, attempt_count 1) before the POST of the send that owns *)
(* it, it is finalised exactly once after that POST has completed, and no  *)
(* other job or send writes to it.                                         *)
(***************************************************************************)
C5_OwnerOrder ==
    \A w \in Workers :
        LET f == workers[w]
            id == f.webhook_record
        IN  /\ f.pc \in {"post", "finalize", "returned"} /\ LiveWithUrl
               => id \in DOMAIN webhooks_out
            /\ f.pc = "post" =>
                 /\ webhooks_out[id].status = QUEUED
                 /\ webhooks_out[id].attempt_count = 1
                 /\ audit[id].posts = 0
                 /\ audit[id].finalized = 0
            /\ f.pc = "finalize" =>
                 /\ webhooks_out[id].status = QUEUED
                 /\ webhooks_out[id].attempt_count = 1
                 /\ audit[id].posts = 1
                 /\ audit[id].finalized = 0
            /\ (f.pc = "returned" /\ id # 0) =>
                 /\ audit[id].posts = 1
                 /\ audit[id].finalized = 1

C5_SingleWriter ==
    \A i \in DOMAIN audit :
        /\ ~audit[i].foreign
        /\ audit[i].finalized <= 1
        /\ audit[i].posts <= 1
        /\ audit[i].finalized = 1 => audit[i].posts = 1
        /\ (audit[i].finalized = 0 /\ audit[i].posts = 1) =>
              \E w \in Workers : /\ workers[w].webhook_record = i
                                 /\ workers[w].pc = "finalize"
        /\ audit[i].posts = 0 =>
              \E w \in Workers : /\ workers[w].webhook_record = i
                                 /\ workers[w].pc = "post"

\* Only the step that creates a record or the owner's finalize changes it.
C5_OnlyOwnerWrites ==
    \A i \in DOMAIN webhooks_out :
        webhooks_out'[i] # webhooks_out[i]
        => \E w \in Workers : /\ workers[w].webhook_record = i
                              /\ workers[w].pc = "finalize"
                              /\ workers'[w].pc = "returned"

C5_CreateThenFinalizeOnce ==
    [] (C5_OwnerOrder /\ C5_SingleWriter) /\ [][C5_OnlyOwnerWrites]_vars

\* A record was finalised by its owner while a sweep on the other worker,
\* having selected it, was resubmitting it.
C5_Witness ==
    \E i \in DOMAIN audit, w \in Workers :
        /\ audit[i].finalized = 1
        /\ workers[w].job = "sweep"
        /\ workers[w].webhook = i
        /\ workers[w].pc = "finalize"
        /\ workers[w].webhook_record # i

(***************************************************************************)
(* C6. For one originally sent event whose endpoint keeps failing, the     *)
(* number of POSTs over the first send and all sweep runs is at most 3,    *)
(* and after that no sweep run resubmits it.                               *)
(***************************************************************************)
C6_RetryBounded ==
    \A r \in DOMAIN audit :
        (IsOriginal(r) /\ KeepsFailing(r))
        => /\ PostsFor(r) <= 3
           /\ PostsFor(r) >= 3 =>
                \A w \in Workers :
                    ~(/\ workers[w].job = "sweep"
                      /\ workers[w].pc = "send"
                      /\ Root(workers[w].webhook) = r)

(***************************************************************************)
(* C7. Provided the sweep keeps running, every Delivery Record eventually  *)
(* reaches a terminal status (Sent or Failed) and stays there; none stays  *)
(* Queued, selectable by the sweep, forever.                               *)
(***************************************************************************)
C7_EveryRecordEndsTerminal ==
    \A i \in 1..MaxRecordsSeq :
        <>[](i \in DOMAIN webhooks_out
               => webhooks_out[i].status \in {SENT, FAILED})

(***************************************************************************)
(* C8. In log-only mode send_zapier_webhook returns true for every event   *)
(* and payload, creates or modifies no Delivery Record and makes no HTTP   *)
(* call, whether or not a URL or a secret is configured.                   *)
(***************************************************************************)
C8_DevLogNoEffect ==
    worker_settings.ZAPIER_MODE = "dev_log"
    => /\ webhooks_out = <<>>
       /\ audit = <<>>
       /\ \A w \in Workers :
            /\ workers[w].pc \notin {"post", "finalize", "raised"}
            /\ workers[w].pc = "returned" => workers[w].ret = "true"
            /\ workers[w].webhook_record = 0

C8_Witness ==
    /\ worker_settings.ZAPIER_MODE = "dev_log"
    /\ worker_settings.ZAPIER_CATCH_HOOK_URL # ""
    /\ worker_settings.ZAPIER_HMAC_SECRET # ""
    /\ \E w \in Workers :
         /\ workers[w].pc = "returned"
         /\ workers[w].ret = "true"
         /\ workers[w].event_type = "membership.expiring_30d"

(***************************************************************************)
(* C9. In live mode without a URL send_zapier_webhook returns false,       *)
(* creates no Delivery Record and makes no HTTP call; with a URL that is   *)
(* unreachable it creates a record, and the record is left eligible for    *)
(* retry.                                                                  *)
(***************************************************************************)
C9_MissingUrlSoftFailure ==
    /\ (worker_settings.ZAPIER_MODE # "dev_log"
        /\ worker_settings.ZAPIER_CATCH_HOOK_URL = "")
       => /\ webhooks_out = <<>>
          /\ audit = <<>>
          /\ \A w \in Workers :
               /\ workers[w].pc \notin {"post", "finalize", "raised"}
               /\ workers[w].pc = "returned" => workers[w].ret = "false"
    /\ \A w \in Workers :
         (workers[w].pc = "returned"
          /\ workers[w].response.kind = "exception")
         => /\ workers[w].webhook_record \in DOMAIN webhooks_out
            /\ workers[w].ret = "false"
            /\ webhooks_out[workers[w].webhook_record].status
                 \in {QUEUED, FAILED}
            /\ webhooks_out[workers[w].webhook_record].attempt_count < 3
            /\ RetrySelectable(webhooks_out[workers[w].webhook_record])

\* The POST raised, the send returned false and its record can be swept.
C9_Witness ==
    \E w \in Workers :
        /\ workers[w].pc = "returned"
        /\ workers[w].response.kind = "exception"
        /\ workers[w].ret = "false"
        /\ webhooks_out[workers[w].webhook_record].last_error
             = Some("timed out")

C10_UnsignedPostReached ==
    \E i \in DOMAIN audit :
        /\ audit[i].request # None
        /\ worker_settings.ZAPIER_HMAC_SECRET = ""

(***************************************************************************)
(* ggLeap group reconciliation: update_client_ggleap_group and the two     *)
(* GgLeapAPI calls it makes.                                               *)
(***************************************************************************)
MaxReconciles == 2

MembershipStatuses == {"active", "expired", "pending"}

ADD_OK_CODES == {200, 201}
REMOVE_OK_CODES == {200, 204}

\* if not active_group or not expired_group
MappingsMissing_Both(groups) == "active" \notin groups /\ "expired" \notin groups
MappingsMissing(groups) == "active" \notin groups \/ "expired" \notin groups

\* The map_key of the group the add leg and the remove leg are aimed at.
AddTarget(membership_status) ==
    IF membership_status = "active" THEN "active" ELSE "expired"

RemoveTarget_SameAsAdd(membership_status) == AddTarget(membership_status)
RemoveTarget(membership_status) ==
    IF membership_status = "active" THEN "expired" ELSE "active"

\* The statement after the add leg: the remove leg, whatever the add returned.
AfterAdd_StopOnFailure(ok) == IF ok THEN "remove" ELSE "returned"
AfterAdd(ok) == "remove"

\* What the ggLeap service can answer to a request, and whether the request
\* changed the membership.  error # "" is an exception out of httpx.
GgAnswers(op, member) ==
    IF op = "add"
    THEN IF member
         THEN {[status_code |-> 200, error |-> "", applied |-> FALSE],
               [status_code |-> 409, error |-> "", applied |-> FALSE]}
         ELSE {[status_code |-> 201, error |-> "", applied |-> TRUE]}
    ELSE IF member
         THEN {[status_code |-> 204, error |-> "", applied |-> TRUE]}
         ELSE {[status_code |-> 204, error |-> "", applied |-> FALSE],
               [status_code |-> 404, error |-> "", applied |-> FALSE]}

GgFaults ==
    {[status_code |-> 500, error |-> "", applied |-> FALSE],
     [status_code |-> 0, error |-> "timed out", applied |-> FALSE]}

GgResponses(op, member) ==
    GgAnswers(op, member) \cup (IF service_mode = "flaky" THEN GgFaults ELSE {})

\* The return value of add_user_to_group / remove_user_from_group.
GgOk(op, response) ==
    /\ response.error = ""
    /\ response.status_code \in (IF op = "add" THEN ADD_OK_CODES ELSE REMOVE_OK_CODES)

\* One GgLeapAPI call: without an API key no request is made.
NoRequestLeg(op, group_id) ==
    [op |-> op, group_id |-> group_id, sent |-> FALSE, status_code |-> 0,
     error |-> "", ok |-> FALSE]

RequestLeg(op, group_id, response) ==
    [op |-> op, group_id |-> group_id, sent |-> TRUE,
     status_code |-> response.status_code, error |-> response.error,
     ok |-> GgOk(op, response)]

GroupsAfter(groups, op, group_id, response) ==
    IF ~response.applied THEN groups
    ELSE IF op = "add" THEN groups \cup {group_id} ELSE groups \ {group_id}

\* The record kept of a finished update_client_ggleap_group call.
ReconcileEntry(c, after) ==
    [client_id |-> c.client_id, membership_status |-> c.membership_status,
     legs |-> c.legs, before |-> c.before, after |-> after]

ReconcilesDone == Len(ctx["w1"].reconciled) + Len(ctx["w2"].reconciled)

\* update_client_ggleap_group(client_id, membership_status) is called.
CallReconcile(c, client_id, membership_status) ==
    [c EXCEPT !.client_id = client_id, !.membership_status = membership_status,
              !.rpc = "enter", !.legs = <<>>, !.before = {}]

StartReconcile(w) ==
    /\ workers[w].pc = "idle"
    /\ ctx[w].kind = "none"
    /\ ReconcilesDone < MaxReconciles
    /\ \E client_id \in Clients, membership_status \in MembershipStatuses :
          ctx' = [ctx EXCEPT ![w] =
                     CallReconcile([IdleCtx EXCEPT !.kind = "reconcile",
                                       !.reconciled = ctx[w].reconciled],
                                   client_id, membership_status)]
    /\ UNCHANGED <<worker_settings, webhooks_out, workers, pool, table_capacity,
                   audit, feature_flags, ggleap, memberships, today, ext_groups,
                   service_mode, rq_jobs, cron>>

\* Lines 101-132: the flag, the link lookup and the two group mappings.
ReconcileEnter(w) ==
    /\ ctx[w].rpc = "enter"
    /\ ctx' = [ctx EXCEPT ![w].rpc =
                  IF ~feature_flags.FEATURE_GGLEAP_SYNC THEN "returned"
                  ELSE IF ctx[w].client_id \notin ggleap.links THEN "returned"
                  ELSE IF MappingsMissing(ggleap.groups) THEN "returned"
                  ELSE "add",
               ![w].before = ext_groups[ctx[w].client_id] ]
    /\ UNCHANGED <<worker_settings, webhooks_out, workers, pool, table_capacity,
                   audit, feature_flags, ggleap, memberships, today, ext_groups,
                   service_mode, rq_jobs, cron>>

\* Where update_client_ggleap_group goes on after a GgLeapAPI call.
AfterLeg(op, ok) == IF op = "add" THEN AfterAdd(ok) ELSE "returned"

\* One GgLeapAPI call of the reconcile of worker w.
GgCall(w, op, map_key) ==
    LET cid == ctx[w].client_id
        gid == GroupIdOf(map_key)
    IN  IF ggleap.api_key = ""
        THEN /\ ctx' = [ctx EXCEPT ![w].legs = Append(@, NoRequestLeg(op, gid)),
                                   ![w].rpc = AfterLeg(op, FALSE)]
             /\ UNCHANGED ext_groups
        ELSE \E response \in GgResponses(op, gid \in ext_groups[cid]) :
               /\ ext_groups' = [ext_groups EXCEPT ![cid] =
                                    GroupsAfter(@, op, gid, response)]
               /\ ctx' = [ctx EXCEPT
                            ![w].legs = Append(@, RequestLeg(op, gid, response)),
                            ![w].rpc = AfterLeg(op, GgOk(op, response))]

GgAdd(w) ==
    /\ ctx[w].rpc = "add"
    /\ GgCall(w, "add", AddTarget(ctx[w].membership_status))
    /\ UNCHANGED <<worker_settings, webhooks_out, workers, pool, table_capacity,
                   audit, feature_flags, ggleap, memberships, today,
                   service_mode, rq_jobs, cron>>

GgRemove(w) ==
    /\ ctx[w].rpc = "remove"
    /\ GgCall(w, "remove", RemoveTarget(ctx[w].membership_status))
    /\ UNCHANGED <<worker_settings, webhooks_out, workers, pool, table_capacity,
                   audit, feature_flags, ggleap, memberships, today,
                   service_mode, rq_jobs, cron>>

\* The call returns to the job that made it.
ReconcileReturn(w) ==
    /\ ctx[w].kind = "reconcile"
    /\ ctx[w].rpc = "returned"
    /\ ctx' = [ctx EXCEPT ![w] =
                  [IdleCtx EXCEPT !.reconciled =
                      Append(ctx[w].reconciled,
                             ReconcileEntry(ctx[w],
                                            ext_groups[ctx[w].client_id]))]]
    /\ UNCHANGED <<worker_settings, webhooks_out, workers, pool, table_capacity,
                   audit, feature_flags, ggleap, memberships, today, ext_groups,
                   service_mode, rq_jobs, cron>>

ReconcileStep(w) ==
    ReconcileEnter(w) \/ GgAdd(w) \/ GgRemove(w) \/ ReconcileReturn(w)

ReconcileNext == \E w \in pool : StartReconcile(w) \/ ReconcileStep(w)

\* The states update_client_ggleap_group can be called in, one worker.
ReconcileInit ==
    /\ worker_settings \in Settings
    /\ worker_settings.ZAPIER_MODE = "dev_log"
    /\ worker_settings.ZAPIER_CATCH_HOOK_URL = ""
    /\ worker_settings.ZAPIER_HMAC_SECRET = ""
    /\ webhooks_out = <<>>
    /\ workers = [w \in Workers |-> IdleFrame]
    /\ pool = {"w1"}
    /\ table_capacity = 0
    /\ audit = <<>>
    /\ feature_flags \in [FEATURE_MESSAGING : {TRUE}, FEATURE_GGLEAP_SYNC : BOOLEAN]
    /\ ggleap \in [api_key : {"", "key-1"}, links : {{}, {"c1"}},
                   groups : SUBSET GgleapGroupType]
    /\ memberships = [c \in Clients |-> <<>>]
    /\ today = [day |-> 1, first_weekday |-> 0]
    /\ ext_groups \in [Clients -> SUBSET GroupIds]
    /\ ext_groups["c2"] = {}
    /\ service_mode \in {"reliable", "flaky"}
    /\ ctx = [w \in Workers |-> IdleCtx]
    /\ rq_jobs = <<>>
    /\ cron = <<>>

ReconcileSpec == ReconcileInit /\ [][ReconcileNext]_vars

\* Two workers reconcile the one linked client against a service that
\* answers every request.
RaceInit ==
    /\ worker_settings \in Settings
    /\ worker_settings.ZAPIER_MODE = "dev_log"
    /\ worker_settings.ZAPIER_CATCH_HOOK_URL = ""
    /\ worker_settings.ZAPIER_HMAC_SECRET = ""
    /\ webhooks_out = <<>>
    /\ workers = [w \in Workers |-> IdleFrame]
    /\ pool = Workers
    /\ table_capacity = 0
    /\ audit = <<>>
    /\ feature_flags = [FEATURE_MESSAGING |-> TRUE, FEATURE_GGLEAP_SYNC |-> TRUE]
    /\ ggleap = [api_key |-> "key-1", links |-> {"c1"}, groups |-> GgleapGroupType]
    /\ memberships = [c \in Clients |-> <<>>]
    /\ today = [day |-> 1, first_weekday |-> 0]
    /\ ext_groups \in [Clients -> SUBSET GroupIds]
    /\ ext_groups["c2"] = {}
    /\ service_mode = "reliable"
    /\ ctx = [w \in Workers |-> IdleCtx]
    /\ rq_jobs = <<>>
    /\ cron = <<>>

RaceSpec == RaceInit /\ [][ReconcileNext]_vars

(***************************************************************************)
(* Reconciliation claims.                                                  *)
(***************************************************************************)
\* The client has a link and both group mappings exist, the sync flag is on.
Reconcilable(client_id) ==
    /\ feature_flags.FEATURE_GGLEAP_SYNC
    /\ client_id \in ggleap.links
    /\ {"active", "expired"} \subseteq ggleap.groups

\* Every finished update_client_ggleap_group call, of any worker.
FinishedReconciles ==
    UNION { { ctx[w].reconciled[i] : i \in DOMAIN ctx[w].reconciled } : w \in Workers }

\* The legs of a call, as far as it got, are add-to-X then remove-from-Y.
LegsAre(legs, add_group, remove_group) ==
    /\ Len(legs) <= 2
    /\ Len(legs) >= 1 => legs[1].op = "add" /\ legs[1].group_id = add_group
    /\ Len(legs) = 2 => legs[2].op = "remove" /\ legs[2].group_id = remove_group

LegsFollowStatus(membership_status, legs) ==
    IF membership_status = "active"
    THEN LegsAre(legs, "g-active", "g-expired")
    ELSE LegsAre(legs, "g-expired", "g-active")

\* C14: for a linked client with both group mappings, a reconcile with status
\* "active" issues add-to-Active then remove-from-Expired and with any other
\* status add-to-Expired then remove-from-Active; the remove leg is attempted
\* whatever the add leg returned, and the call returns after both legs.
C14_LegsInOrder ==
    /\ \A w \in Workers :
          /\ LegsFollowStatus(ctx[w].membership_status, ctx[w].legs)
          /\ ctx[w].rpc = "remove" => Len(ctx[w].legs) = 1
          /\ ctx[w].rpc = "returned" /\ Reconcilable(ctx[w].client_id)
                => Len(ctx[w].legs) = 2
    /\ \A e \in FinishedReconciles :
          /\ LegsFollowStatus(e.membership_status, e.legs)
          /\ Reconcilable(e.client_id) => Len(e.legs) = 2

C14_AddLegHandsOver ==
    [][\A w \in Workers :
          ctx[w].rpc = "add" /\ ctx'[w] # ctx[w] => ctx'[w].rpc = "remove"]_vars

C14_AddThenRemove == []C14_LegsInOrder /\ C14_AddLegHandsOver

\* A finished call whose add leg was refused and whose remove leg was sent.
C14_Witness ==
    \E e \in FinishedReconciles :
        /\ e.membership_status = "active"
        /\ Len(e.legs) = 2
        /\ e.legs[1].sent /\ ~e.legs[1].ok
        /\ e.legs[2].sent /\ e.legs[2].ok

\* The membership a reconcile with this status aims at.
TargetGroups(membership_status) ==
    IF membership_status = "active" THEN {"g-active"} ELSE {"g-expired"}

\* Every request of the call reached the service and was answered by it.
Served(e) ==
    /\ Len(e.legs) = 2
    /\ \A i \in DOMAIN e.legs :
          e.legs[i].sent /\ e.legs[i].error = "" /\ e.legs[i].status_code # 500

\* Two calls in a row by the one worker, same client and same status.
RepeatedReconciles ==
    LET log == ctx["w1"].reconciled
    IN  { <<log[i], log[i + 1]>> : i \in { j \in DOMAIN log : j + 1 \in DOMAIN log
              /\ log[j].client_id = log[j + 1].client_id
              /\ log[j].membership_status = log[j + 1].membership_status } }

\* C15: calling reconcile twice in a row with the same status leaves the
\* external membership the first call left, which is the target group only,
\* from any initial membership and whatever the second call's legs returned.
C15_Idempotent ==
    \A pair \in RepeatedReconciles :
        Served(pair[1]) =>
            /\ pair[1].after = TargetGroups(pair[1].membership_status)
            /\ pair[2].before = pair[1].after
            /\ pair[2].after = pair[1].after

\* The second call's remove-from-Expired was refused: already absent.
C15_Witness ==
    \E pair \in RepeatedReconciles :
        /\ Served(pair[1]) /\ Served(pair[2])
        /\ pair[1].membership_status = "active"
        /\ pair[1].before = {"g-expired"}
        /\ pair[2].legs[2].status_code = 404 /\ ~pair[2].legs[2].ok
        /\ pair[2].after = {"g-active"}

\* C16: with no link for the client, or the Active mapping missing, or the
\* Expired mapping missing, reconcile makes no call to the service, leaves
\* the memberships alone and returns.
C16_NoCallsState ==
    /\ \A w \in Workers :
          ctx[w].rpc # "none" /\ ~Reconcilable(ctx[w].client_id)
             => ctx[w].legs = <<>> /\ ctx[w].rpc \in {"enter", "returned"}
    /\ \A e \in FinishedReconciles :
          ~Reconcilable(e.client_id) => e.legs = <<>> /\ e.after = e.before

C16_ReturnsAtOnce ==
    [][\A w \in Workers :
          ctx[w].rpc = "enter" /\ ~Reconcilable(ctx[w].client_id)
              /\ ctx'[w] # ctx[w]
          => ctx'[w].rpc = "returned" /\ ext_groups' = ext_groups]_vars

C16_UnconfiguredNoCalls == []C16_NoCallsState /\ C16_ReturnsAtOnce

\* Linked client, sync on, only the Active mapping exists: returned, no legs.
C16_Witness ==
    /\ feature_flags.FEATURE_GGLEAP_SYNC
    /\ ggleap.groups = {"active"}
    /\ ggleap.api_key # ""
    /\ \E e \in FinishedReconciles :
          e.client_id \in ggleap.links /\ e.legs = <<>>

\* C18: two reconcile jobs for the same linked client ran on the two
\* workers, one with "active" and one with "expired", every call succeeded
\* and both have finished: the client is in exactly one of the two groups.
C18_ExactlyOneGroup ==
    LET log1 == ctx["w1"].reconciled
        log2 == ctx["w2"].reconciled
    IN  ( /\ ctx["w1"].kind = "none" /\ ctx["w2"].kind = "none"
          /\ Len(log1) = 1 /\ Len(log2) = 1
          /\ log1[1].client_id = log2[1].client_id
          /\ Reconcilable(log1[1].client_id)
          /\ {log1[1].membership_status, log2[1].membership_status}
                = {"active", "expired"}
          /\ \A e \in {log1[1], log2[1]} :
                Len(e.legs) = 2 /\ \A i \in DOMAIN e.legs : e.legs[i].ok )
        => Cardinality(ext_groups[log1[1].client_id]) = 1

(***************************************************************************)
(* The nightly sync: sync_all_ggleap_groups.                               *)
(***************************************************************************)
Days == 1 .. 3

\* Rows of the memberships table; ends_on is after starts_on.
MembershipRows == {[starts_on |-> 1, ends_on |-> 2], [starts_on |-> 2, ends_on |-> 3]}

MembershipLists ==
    {<<>>} \cup { <<m>> : m \in MembershipRows }
           \cup { <<m, n>> : m \in MembershipRows, n \in MembershipRows }

\* Membership.status
MembershipStatus(membership, day) ==
    IF day < membership.starts_on THEN "pending"
    ELSE IF day > membership.ends_on THEN "expired"
    ELSE "active"

\* Membership.is_active
IsActive(membership, day) == MembershipStatus(membership, day) = "active"

\* The status the sync passes on: that of the first active membership of the
\* client, 'expired' when there is none.
ClientStatus_AnyMembership(rows, day) ==
    IF rows = <<>> THEN "expired" ELSE "active"
ClientStatus(rows, day) ==
    LET actives == { i \in DOMAIN rows : IsActive(rows[i], day) }
        current_membership == rows[CHOOSE i \in actives : \A j \in actives : i <= j]
    IN  IF actives = {} THEN "expired"
        ELSE MembershipStatus(current_membership, day)

StartSync(w) ==
    /\ workers[w].pc = "idle"
    /\ ctx[w].kind = "none"
    /\ ctx' = [ctx EXCEPT ![w] =
                  IF ~feature_flags.FEATURE_GGLEAP_SYNC
                  THEN [IdleCtx EXCEPT !.kind = "sync", !.pc = "done"]
                  ELSE [IdleCtx EXCEPT !.kind = "sync", !.pc = "loop",
                                       !.todo = ggleap.links]]
    /\ UNCHANGED <<worker_settings, webhooks_out, workers, pool, table_capacity,
                   audit, feature_flags, ggleap, memberships, today, ext_groups,
                   service_mode, rq_jobs, cron>>

\* for client in clients_with_links: ... update_client_ggleap_group(id, status)
SyncLoop(w) ==
    /\ ctx[w].kind = "sync"
    /\ ctx[w].pc = "loop"
    /\ ctx[w].rpc = "none"
    /\ IF ctx[w].todo = {}
       THEN ctx' = [ctx EXCEPT ![w].pc = "done"]
       ELSE \E client \in ctx[w].todo :
               ctx' = [ctx EXCEPT ![w] =
                          CallReconcile([ctx[w] EXCEPT !.todo = @ \ {client}],
                                        client,
                                        ClientStatus(memberships[client],
                                                     today.day))]
    /\ UNCHANGED <<worker_settings, webhooks_out, workers, pool, table_capacity,
                   audit, feature_flags, ggleap, memberships, today, ext_groups,
                   service_mode, rq_jobs, cron>>

\* update_client_ggleap_group returns into the loop.
SyncAfterCall(w) ==
    /\ ctx[w].kind = "sync"
    /\ ctx[w].rpc = "returned"
    /\ ctx' = [ctx EXCEPT
                 ![w].reconciled =
                     Append(@, ReconcileEntry(ctx[w], ext_groups[ctx[w].client_id])),
                 ![w].rpc = "none"]
    /\ UNCHANGED <<worker_settings, webhooks_out, workers, pool, table_capacity,
                   audit, feature_flags, ggleap, memberships, today, ext_groups,
                   service_mode, rq_jobs, cron>>

SyncEnd(w) ==
    /\ ctx[w].kind = "sync"
    /\ ctx[w].pc = "done"
    /\ ctx' = [ctx EXCEPT ![w] = IdleCtx]
    /\ UNCHANGED <<worker_settings, webhooks_out, workers, pool, table_capacity,
                   audit, feature_flags, ggleap, memberships, today, ext_groups,
                   service_mode, rq_jobs, cron>>

SyncNext ==
    \E w \in pool :
        \/ StartSync(w) \/ SyncLoop(w) \/ SyncAfterCall(w) \/ SyncEnd(w)
        \/ ReconcileEnter(w) \/ GgAdd(w) \/ GgRemove(w)

SyncInit ==
    /\ worker_settings \in Settings
    /\ worker_settings.ZAPIER_MODE = "dev_log"
    /\ worker_settings.ZAPIER_CATCH_HOOK_URL = ""
    /\ worker_settings.ZAPIER_HMAC_SECRET = ""
    /\ webhooks_out = <<>>
    /\ workers = [w \in Workers |-> IdleFrame]
    /\ pool = {"w1"}
    /\ table_capacity = 0
    /\ audit = <<>>
    /\ feature_flags \in [FEATURE_MESSAGING : {TRUE}, FEATURE_GGLEAP_SYNC : BOOLEAN]
    /\ ggleap \in [api_key : {"key-1"}, links : SUBSET Clients,
                   groups : {GgleapGroupType}]
    /\ memberships \in [Clients -> MembershipLists]
    /\ today \in [day : Days, first_weekday : {0}]
    /\ ext_groups = [c \in Clients |-> {}]
    /\ service_mode \in {"reliable", "flaky"}
    /\ ctx = [w \in Workers |-> IdleCtx]
    /\ rq_jobs = <<>>
    /\ cron = <<>>

SyncSpec == SyncInit /\ [][SyncNext]_vars

\* Some membership of the client covers today.
HasActiveMembership(client) ==
    \E i \in DOMAIN memberships[client] :
        /\ memberships[client][i].starts_on <= today.day
        /\ today.day <= memberships[client][i].ends_on

\* How many calls of the running sync were for this client.
CallsFor(w, client) ==
    Cardinality({ i \in DOMAIN ctx[w].reconciled :
                      ctx[w].reconciled[i].client_id = client })

RoutedEventTypes ==
    {"client.created", "membership.expiring_30d", "membership.status_changed",
     "client.not_checked_in_mid_month", "krc_meetup_announce"}

EventTypes == RoutedEventTypes \cup {"nonexistent.event"}

\* Payloads process_event is called with: dicts, with and without a
\* new_status, and a value that is no dict.
EventPayloads ==
    {[kind |-> "dict", client_id |-> "c1", new_status |-> "active"],
     [kind |-> "dict", client_id |-> "c1", new_status |-> "expired"],
     [kind |-> "dict", client_id |-> "c1", new_status |-> ""],
     [kind |-> "other", client_id |-> "", new_status |-> ""]}

\* The if/elif chain of process_event: which handler, if any.
HandlerOf_DefaultsToMessaging(event_type) ==
    IF event_type = "membership.status_changed" THEN "ggleap" ELSE "messaging"
HandlerOf(event_type) ==
    IF event_type = "membership.status_changed" THEN "ggleap"
    ELSE IF event_type \in RoutedEventTypes THEN "messaging"
    ELSE "unknown"

\* The feature flag each handler checks first.
HandlerEnabled_NeedsBoth(handler, flags) ==
    flags.FEATURE_MESSAGING /\ flags.FEATURE_GGLEAP_SYNC
HandlerEnabled(handler, flags) ==
    IF handler = "messaging" THEN flags.FEATURE_MESSAGING
    ELSE flags.FEATURE_GGLEAP_SYNC

\* The payload a messaging handler hands to send_zapier_webhook.
HandlerPayload(event_type, payload) ==
    IF event_type = "client.created"
    THEN [client_id |-> payload.client_id, message_type |-> "welcome_sms"]
    ELSE IF event_type = "membership.expiring_30d"
    THEN [client_id |-> payload.client_id, message_type |-> "expiry_reminder"]
    ELSE IF event_type = "client.not_checked_in_mid_month"
    THEN [client_id |-> payload.client_id, message_type |-> "checkin_reminder"]
    ELSE [message_type |-> "meetup_announcement"]

\* except Exception: log, raise.  The outcome of process_event given the
\* outcome of the handler.
ProcessEventOutcome_Swallowed(handler_outcome) == "returned"
ProcessEventOutcome(handler_outcome) == handler_outcome

\* The handler has ended: the frame of process_event afterwards.
HandlerEnded(c, handler_outcome) ==
    [c EXCEPT !.pc = "done", !.handler = handler_outcome,
              !.result = ProcessEventOutcome(handler_outcome)]

StartEvent(w) ==
    /\ workers[w].pc = "idle"
    /\ ctx[w].kind = "none"
    /\ \E event_type \in EventTypes, payload \in EventPayloads :
          ctx' = [ctx EXCEPT ![w] =
                     [IdleCtx EXCEPT !.kind = "event", !.pc = "dispatch",
                                     !.event_type = event_type,
                                     !.payload = payload]]
    /\ UNCHANGED <<worker_settings, webhooks_out, workers, pool, table_capacity,
                   audit, feature_flags, ggleap, memberships, today, ext_groups,
                   service_mode, rq_jobs, cron>>

\* process_event routes, the handler checks its flag and reads the payload.
Dispatch(w) ==
    LET c == ctx[w]
        handler == HandlerOf(c.event_type)
    IN  /\ c.kind = "event"
        /\ c.pc = "dispatch"
        /\ IF handler = "unknown"
           THEN /\ ctx' = [ctx EXCEPT ![w] =
                              [c EXCEPT !.pc = "done", !.result = "returned"]]
                /\ UNCHANGED workers
           ELSE IF ~HandlerEnabled(handler, feature_flags)
           THEN /\ ctx' = [ctx EXCEPT ![w] = HandlerEnded(c, "returned")]
                /\ UNCHANGED workers
           ELSE IF c.payload.kind # "dict"
           THEN /\ ctx' = [ctx EXCEPT ![w] = HandlerEnded(c, "raised")]
                /\ UNCHANGED workers
           ELSE IF handler = "messaging"
           THEN /\ ctx' = [ctx EXCEPT ![w].pc = "handler"]
                /\ workers' = [workers EXCEPT ![w] =
                      [IdleFrame EXCEPT
                          !.job = "event", !.pc = "send",
                          !.event_type = c.event_type,
                          !.payload = HandlerPayload(c.event_type, c.payload)]]
           ELSE IF c.payload.client_id # "" /\ c.payload.new_status # ""
           THEN /\ ctx' = [ctx EXCEPT ![w] =
                              CallReconcile([c EXCEPT !.pc = "handler"],
                                            c.payload.client_id,
                                            c.payload.new_status)]
                /\ UNCHANGED workers
           ELSE /\ ctx' = [ctx EXCEPT ![w] = HandlerEnded(c, "returned")]
                /\ UNCHANGED workers
        /\ UNCHANGED <<worker_settings, webhooks_out, pool, table_capacity,
                       audit, feature_flags, ggleap, memberships, today,
                       ext_groups, service_mode, rq_jobs, cron>>

\* Mutant: the handler raises when the send returns False.
MessagingHandlerOutcome_RaisesOnFalse(frame) ==
    IF frame.pc = "raised" \/ frame.ret = "false" THEN "raised" ELSE "returned"

\* How a messaging handler ends once send_zapier_webhook has returned or
\* raised: the returned value is not looked at, an exception passes through.
MessagingHandlerOutcome(frame) ==
    IF frame.pc = "raised" THEN "raised" ELSE "returned"

\* send_zapier_webhook has returned or raised.
EventAfterSend(w) ==
    /\ workers[w].job = "event"
    /\ workers[w].pc \in {"returned", "raised"}
    /\ ctx' = [ctx EXCEPT ![w] =
                  HandlerEnded(ctx[w], MessagingHandlerOutcome(workers[w]))]
    /\ workers' = [workers EXCEPT ![w] = IdleFrame]
    /\ UNCHANGED <<worker_settings, webhooks_out, pool, table_capacity,
                   audit, feature_flags, ggleap, memberships, today,
                   ext_groups, service_mode, rq_jobs, cron>>

\* update_client_ggleap_group has returned.
EventAfterReconcile(w) ==
    /\ ctx[w].kind = "event"
    /\ ctx[w].rpc = "returned"
    /\ ctx' = [ctx EXCEPT ![w] =
                  HandlerEnded(
                     [ctx[w] EXCEPT
                         !.reconciled =
                             Append(@, ReconcileEntry(ctx[w],
                                          ext_groups[ctx[w].client_id])),
                         !.rpc = "none"],
                     "returned")]
    /\ UNCHANGED <<worker_settings, webhooks_out, workers, pool, table_capacity,
                   audit, feature_flags, ggleap, memberships, today, ext_groups,
                   service_mode, rq_jobs, cron>>

\* The job is over.
EventEnd(w) ==
    /\ ctx[w].kind = "event"
    /\ ctx[w].pc = "done"
    /\ ctx' = [ctx EXCEPT ![w] = IdleCtx]
    /\ UNCHANGED <<worker_settings, webhooks_out, workers, pool, table_capacity,
                   audit, feature_flags, ggleap, memberships, today, ext_groups,
                   service_mode, rq_jobs, cron>>

RouterNext ==
    \E w \in pool :
        \/ StartEvent(w) \/ Dispatch(w) \/ EventAfterSend(w)
        \/ EventAfterReconcile(w) \/ EventEnd(w)
        \/ SendDevLog(w) \/ SendNoUrl(w) \/ SendCreateRecord(w)
        \/ SendCreateRaises(w) \/ HttpPost(w) \/ SendFinalize(w)
        \/ ReconcileEnter(w) \/ GgAdd(w) \/ GgRemove(w)

MaxEventRecords == 2

\* One worker takes events; every setting and both flags vary.
RouterInit ==
    /\ worker_settings \in Settings
    /\ webhooks_out = <<>>
    /\ workers = [w \in Workers |-> IdleFrame]
    /\ pool = {"w1"}
    /\ table_capacity = MaxEventRecords
    /\ audit = <<>>
    /\ feature_flags \in [FEATURE_MESSAGING : BOOLEAN, FEATURE_GGLEAP_SYNC : BOOLEAN]
    /\ ggleap = [api_key |-> "key-1", links |-> {"c1"}, groups |-> GgleapGroupType]
    /\ memberships = [c \in Clients |-> <<>>]
    /\ today = [day |-> 1, first_weekday |-> 0]
    /\ ext_groups = [c \in Clients |-> {}]
    /\ service_mode = "reliable"
    /\ ctx = [w \in Workers |-> IdleCtx]
    /\ rq_jobs = <<>>
    /\ cron = <<>>

RouterSpec == RouterInit /\ [][RouterNext]_vars

(***************************************************************************)
(* Router claims.                                                          *)
(***************************************************************************)
\* Nothing outside the frame of process_event moves in this step of w: no
\* Delivery Record, no POST, no ggLeap request, nothing enqueued.
NoEffectStep(w) ==
    /\ webhooks_out' = webhooks_out
    /\ audit' = audit
    /\ ext_groups' = ext_groups
    /\ rq_jobs' = rq_jobs
    /\ workers' = workers
    /\ ctx'[w].legs = <<>>
    /\ ctx'[w].rpc = "none"

\* C11: an event whose type is none of the five routed ones makes
\* process_event return without raising, with no Delivery Record created,
\* no HTTP call to either service and nothing enqueued.
C11_UnknownTypeSteps ==
    [][\A w \in Workers :
          ctx[w].kind = "event" /\ ctx[w].event_type \notin RoutedEventTypes
              /\ ctx'[w] # ctx[w]
          => /\ NoEffectStep(w)
             /\ ctx'[w].pc \in {"done", "idle"}
             /\ ctx'[w].result # "raised"]_vars

C11_UnknownTypeReturns ==
    \A w \in Workers :
        ctx[w].kind = "event" /\ ctx[w].event_type \notin RoutedEventTypes
        => /\ ctx[w].pc \in {"dispatch", "done"}
           /\ ctx[w].pc = "done" => ctx[w].result = "returned"
           /\ workers[w].pc = "idle"

C11_UnknownTypeIsNoOp == []C11_UnknownTypeReturns /\ C11_UnknownTypeSteps

\* An unrouted event has returned with both features on and a live endpoint.
C11_Witness ==
    /\ ctx["w1"].kind = "event" /\ ctx["w1"].pc = "done"
    /\ ctx["w1"].event_type = "nonexistent.event"
    /\ ctx["w1"].payload.kind = "dict"
    /\ ctx["w1"].result = "returned"
    /\ feature_flags.FEATURE_MESSAGING /\ feature_flags.FEATURE_GGLEAP_SYNC
    /\ worker_settings.ZAPIER_MODE = "production"
    /\ worker_settings.ZAPIER_CATCH_HOOK_URL # ""

MessagingEventTypes == RoutedEventTypes \ {"membership.status_changed"}

\* The flag that gates the handler of this routed event is off.
GatedOff(event_type) ==
    \/ event_type \in MessagingEventTypes /\ ~feature_flags.FEATURE_MESSAGING
    \/ event_type = "membership.status_changed"
          /\ ~feature_flags.FEATURE_GGLEAP_SYNC

\* C12: with FEATURE_MESSAGING off the four messaging events return normally
\* with no send, record or HTTP call; with FEATURE_GGLEAP_SYNC off
\* membership.status_changed returns normally with no access-control call;
\* a handler whose own flag is on goes ahead whatever the other flag is.
C12_GatedOffSteps ==
    [][\A w \in Workers :
          ctx[w].kind = "event" /\ GatedOff(ctx[w].event_type)
              /\ ctx'[w] # ctx[w]
          => /\ NoEffectStep(w)
             /\ ctx'[w].pc \in {"done", "idle"}
             /\ ctx'[w].result # "raised"]_vars

C12_GatedOnSteps ==
    [][\A w \in Workers :
          ctx[w].kind = "event" /\ ctx[w].pc = "dispatch"
              /\ ctx[w].payload.kind = "dict" /\ ctx[w].payload.new_status # ""
              /\ ctx'[w] # ctx[w]
          => /\ ctx[w].event_type \in MessagingEventTypes
                   /\ feature_flags.FEATURE_MESSAGING
                => workers'[w].pc = "send"
             /\ ctx[w].event_type = "membership.status_changed"
                   /\ feature_flags.FEATURE_GGLEAP_SYNC
                => ctx'[w].rpc = "enter"]_vars

C12_FlagsGateIndependently == C12_GatedOffSteps /\ C12_GatedOnSteps

\* A messaging event returned untouched with messaging off, ggLeap sync on.
C12_Witness ==
    /\ ctx["w1"].kind = "event" /\ ctx["w1"].pc = "done"
    /\ ctx["w1"].event_type = "client.created"
    /\ ctx["w1"].payload.kind = "dict"
    /\ ctx["w1"].result = "returned"
    /\ ~feature_flags.FEATURE_MESSAGING /\ feature_flags.FEATURE_GGLEAP_SYNC
    /\ worker_settings.ZAPIER_MODE = "production"
    /\ worker_settings.ZAPIER_CATCH_HOOK_URL # ""
    /\ webhooks_out = <<>>

\* C13: for each routed event type, when the handler raises, process_event
\* raises to its caller; a handler exception never becomes a normal return.
C13_RaisedHandlerState ==
    \A w \in Workers :
        ctx[w].kind = "event" /\ ctx[w].handler = "raised"
        => ctx[w].event_type \in RoutedEventTypes /\ ctx[w].result = "raised"

C13_RaisedSendSteps ==
    [][\A w \in Workers :
          workers[w].job = "event" /\ workers[w].pc = "raised"
              /\ ctx'[w] # ctx[w]
          => ctx'[w].pc = "done" /\ ctx'[w].result = "raised"]_vars

C13_HandlerRaisePropagates == []C13_RaisedHandlerState /\ C13_RaisedSendSteps

\* The send of a client.created handler raised at the record creation and
\* process_event raised in turn.
C13_Witness ==
    /\ ctx["w1"].kind = "event" /\ ctx["w1"].pc = "done"
    /\ ctx["w1"].event_type = "client.created"
    /\ ctx["w1"].payload.kind = "dict"
    /\ ctx["w1"].handler = "raised" /\ ctx["w1"].result = "raised"
    /\ Len(webhooks_out) = table_capacity

(***************************************************************************)
(* The scheduler process: setup_scheduled_jobs, the cron schedules of the  *)
(* five triggers, and the meetup announcement job.                         *)
(***************************************************************************)
MaxOccurrences == 1

DaysInMonth == 28

\* The triggers setup_scheduled_jobs registers, in its order, each with its
\* cron string and queue.
Triggers ==
    << [func |-> "schedule_membership_expiry_check", schedule |-> "0 9 * * *",
        queue |-> "default"],
       [func |-> "schedule_monthly_checkin_reminder", schedule |-> "0 10 15 * *",
        queue |-> "default"],
       [func |-> "schedule_krc_meetup_announcement", schedule |-> "0 10 * * 2",
        queue |-> "default"],
       [func |-> "schedule_webhook_retry", schedule |-> "0 * * * *",
        queue |-> "low"],
       [func |-> "schedule_ggleap_sync", schedule |-> "0 2 * * *",
        queue |-> "low"] >>

TriggerFuncs == { Triggers[i].func : i \in DOMAIN Triggers }

\* date.weekday() of today, Monday = 0.
Weekday(date) == (date.first_weekday + date.day - 1) % 7

\* Mutant: Tuesday taken to be weekday() 2.
SecondTuesday_TuesdayIsTwo(date) == 1 + ((2 - date.first_weekday) % 7) + 7

\* second_tuesday.day as schedule_krc_meetup_announcement computes it.
SecondTuesday(date) == 1 + ((1 - date.first_weekday) % 7) + 7

\* The day fields of a cron string: is the schedule due on this date.
\* Day-of-week 2 of cron is Tuesday, weekday() 1.
CronDue(schedule, date) ==
    IF schedule = "0 10 15 * *" THEN date.day = 15
    ELSE IF schedule = "0 10 * * 2" THEN Weekday(date) = 1
    ELSE TRUE

\* A job as JobManager.enqueue_job puts it on a queue.  occurrence is the
\* occurrence of the schedule it was enqueued at, 0 for none.
NewJob(func, event_type, queue, occurrence) ==
    [func |-> func, event_type |-> event_type, queue |-> queue,
     occurrence |-> occurrence, status |-> "queued", ran_on |-> 0,
     published |-> 0]

\* JobManager.schedule_periodic_job: one enqueue_job, the schedule unused.
SchedulePeriodicJob(jobs, trigger) ==
    Append(jobs, NewJob(trigger.func, "", trigger.queue, 0))

RECURSIVE SetupFrom(_, _)
SetupFrom(jobs, i) ==
    IF i > Len(Triggers) THEN jobs
    ELSE SetupFrom(SchedulePeriodicJob(jobs, Triggers[i]), i + 1)

\* run_scheduler: setup_scheduled_jobs(), then Scheduler.run().
SetupScheduledJobs ==
    /\ \A t \in DOMAIN cron : ~cron[t].registered
    /\ rq_jobs' = SetupFrom(rq_jobs, 1)
    /\ cron' = [t \in DOMAIN cron |-> [cron[t] EXCEPT !.registered = TRUE]]
    /\ UNCHANGED <<worker_settings, webhooks_out, workers, pool, table_capacity,
                   audit, feature_flags, ggleap, memberships, today, ext_groups,
                   service_mode, ctx>>

MaxSetups == 2

\* How many times setup_scheduled_jobs has run: each run enqueues the first
\* trigger once.
SetupsDone ==
    Cardinality({ i \in DOMAIN rq_jobs :
                     rq_jobs[i].func = Triggers[1].func
                         /\ rq_jobs[i].occurrence = 0 })

\* The scheduler process is stopped and started again: run_scheduler will
\* call setup_scheduled_jobs anew.  The queues live in Redis and stay.
SchedulerRestart ==
    /\ \A t \in DOMAIN cron : cron[t].registered
    /\ SetupsDone < MaxSetups
    /\ cron' = [t \in DOMAIN cron |-> [cron[t] EXCEPT !.registered = FALSE]]
    /\ UNCHANGED <<worker_settings, webhooks_out, workers, pool, table_capacity,
                   audit, feature_flags, ggleap, memberships, today, ext_groups,
                   service_mode, ctx, rq_jobs>>

\* The time of a trigger's schedule arrives while the scheduler runs.
\* rq-scheduler has no job registered with it, so nothing is enqueued.
CronOccurrence(t) ==
    /\ cron[t].registered
    /\ cron[t].occurrences < MaxOccurrences
    /\ CronDue(Triggers[t].schedule, today)
    /\ cron' = [cron EXCEPT ![t].occurrences = @ + 1]
    /\ UNCHANGED <<worker_settings, webhooks_out, workers, pool, table_capacity,
                   audit, feature_flags, ggleap, memberships, today, ext_groups,
                   service_mode, ctx, rq_jobs>>

Midnight ==
    /\ today.day < DaysInMonth
    /\ today' = [today EXCEPT !.day = @ + 1]
    /\ UNCHANGED <<worker_settings, webhooks_out, workers, pool, table_capacity,
                   audit, feature_flags, ggleap, memberships, ext_groups,
                   service_mode, ctx, rq_jobs, cron>>

\* EventPublisher.krc_meetup_announce declares no parameter; the scheduler
\* calls it with one argument.
KRC_MEETUP_ANNOUNCE_PARAMS == 0
KRC_MEETUP_ANNOUNCE_ARGS == 1

\* A Python call binds only when the arguments fit the parameters.
CallBinds(params, args) == params = args

\* A worker runs schedule_krc_meetup_announcement.
RunMeetupAnnouncement(w) ==
    /\ workers[w].pc = "idle"
    /\ ctx[w].kind = "none"
    /\ \E i \in DOMAIN rq_jobs :
          /\ rq_jobs[i].func = "schedule_krc_meetup_announcement"
          /\ rq_jobs[i].status = "queued"
          /\ rq_jobs' =
               IF today.day # SecondTuesday(today)
               THEN [rq_jobs EXCEPT ![i].status = "finished",
                                    ![i].ran_on = today.day]
               ELSE IF ~CallBinds(KRC_MEETUP_ANNOUNCE_PARAMS,
                                  KRC_MEETUP_ANNOUNCE_ARGS)
               THEN [rq_jobs EXCEPT ![i].status = "failed",
                                    ![i].ran_on = today.day]
               ELSE Append([rq_jobs EXCEPT ![i].status = "finished",
                                           ![i].ran_on = today.day,
                                           ![i].published = 1],
                           NewJob("process_event", "krc_meetup_announce",
                                  "default", 0))
    /\ UNCHANGED <<worker_settings, webhooks_out, workers, pool, table_capacity,
                   audit, feature_flags, ggleap, memberships, today, ext_groups,
                   service_mode, ctx, cron>>

SchedNext ==
    \/ SetupScheduledJobs
    \/ \E t \in DOMAIN Triggers : CronOccurrence(t)
    \/ Midnight
    \/ \E w \in pool : RunMeetupAnnouncement(w)

\* Any date of a month, scheduler not yet started.
SchedInit ==
    /\ worker_settings \in Settings
    /\ worker_settings.ZAPIER_MODE = "dev_log"
    /\ worker_settings.ZAPIER_CATCH_HOOK_URL = ""
    /\ worker_settings.ZAPIER_HMAC_SECRET = ""
    /\ webhooks_out = <<>>
    /\ workers = [w \in Workers |-> IdleFrame]
    /\ pool = {"w1"}
    /\ table_capacity = 0
    /\ audit = <<>>
    /\ feature_flags = DefaultFlags
    /\ ggleap = [api_key |-> "", links |-> {}, groups |-> {}]
    /\ memberships = [c \in Clients |-> <<>>]
    /\ today \in [day : 1 .. DaysInMonth, first_weekday : 0 .. 6]
    /\ ext_groups = [c \in Clients |-> {}]
    /\ service_mode = "reliable"
    /\ ctx = [w \in Workers |-> IdleCtx]
    /\ rq_jobs = <<>>
    /\ cron = [t \in DOMAIN Triggers |-> NoCron]

SchedSpec == SchedInit /\ [][SchedNext]_vars

\* The scheduler with restarts, on any one date.
RestartNext ==
    \/ SetupScheduledJobs
    \/ SchedulerRestart
    \/ \E t \in DOMAIN Triggers : CronOccurrence(t)
    \/ \E w \in pool : RunMeetupAnnouncement(w)

RestartSpec == SchedInit /\ [][RestartNext]_vars

\* The krc_meetup_announce events on the queues.
MeetupEvents ==
    { i \in DOMAIN rq_jobs : rq_jobs[i].func = "process_event"
                              /\ rq_jobs[i].event_type = "krc_meetup_announce" }

\* today is the second Tuesday of its month.
IsSecondTuesday(day, first_weekday) ==
    /\ (first_weekday + day - 1) % 7 = 1
    /\ day \in 8 .. 14

\* C19: a run of schedule_krc_meetup_announcement on the second Tuesday of
\* the month publishes exactly one krc_meetup_announce event; a run on any
\* other date publishes nothing; either way the run completes without error.
C19_MeetupPublishedOnSecondTuesday ==
    \A i \in DOMAIN rq_jobs :
        rq_jobs[i].func = "schedule_krc_meetup_announcement"
            /\ rq_jobs[i].status # "queued"
        => /\ rq_jobs[i].status = "finished"
           /\ rq_jobs[i].published =
                 IF IsSecondTuesday(rq_jobs[i].ran_on, today.first_weekday)
                 THEN 1 ELSE 0
           /\ Cardinality(MeetupEvents) = rq_jobs[i].published

\* Jobs of this trigger enqueued at this occurrence of its schedule.
EnqueuedAt(func, occurrence) ==
    { i \in DOMAIN rq_jobs : rq_jobs[i].func = func
                              /\ rq_jobs[i].occurrence = occurrence }

\* C20: each of the five registered triggers is enqueued at every occurrence
\* of its cron schedule, not only once when it is registered.
C20_EnqueuedAtEveryOccurrence ==
    \A t \in DOMAIN cron :
        \A k \in 1 .. cron[t].occurrences :
            EnqueuedAt(Triggers[t].func, k) # {}

(***************************************************************************)
(* The sweep against a send in flight, and what a resubmission POSTs.      *)
(***************************************************************************)
\* The send that created record r got HTTP 200 to its POST.
FirstPostOk(r) == IsOriginal(r) /\ audit[r].outcome = "ok"

\* C28: with a sweep and an event's send on different workers, the sweep
\* does not resubmit a record whose creating send is still in flight, so an
\* event whose first POST returns HTTP 200 is POSTed exactly once.
C28_Http200PostedOnce ==
    \A r \in DOMAIN audit : FirstPostOk(r) => PostsFor(r) = 1

\* The data field of the envelope a send POSTs is the payload it was
\* called with.
PostedData(i) == audit[i].payload

\* C29: a resubmission POSTs an envelope whose event and data fields equal
\* those of the envelope the original send of that record POSTed, however
\* many resubmissions follow one another.
C29_ResubmitsSameEnvelope ==
    \A i \in DOMAIN audit :
        audit[i].parent # 0 /\ audit[i].posts > 0
        => /\ audit[i].event_type = audit[audit[i].parent].event_type
           /\ PostedData(i) = PostedData(audit[i].parent)
           /\ PostedData(i) = PostedData(Root(i))

(***************************************************************************)
(* C26. One run of retry_failed_webhooks resubmits at most 50 records,     *)
(* each Queued or Failed with attempt_count < 3 when the run selected it,  *)
(* never one that was Sent or had attempt_count >= 3 then; an exception    *)
(* raised by one resubmission leaves the rest of the batch to be           *)
(* resubmitted, and the run ends only when the batch is used up.           *)
(***************************************************************************)
C26_SelectionStep ==
    [][\A w \in Workers :
          workers[w].pc = "sweep_query" /\ workers'[w].pc = "sweep_loop"
          => /\ Cardinality(workers'[w].webhooks) <= 50
             /\ \A id \in workers'[w].webhooks :
                   /\ id \in DOMAIN webhooks_out
                   /\ webhooks_out[id].status \in {"queued", "failed"}
                   /\ webhooks_out[id].status # "sent"
                   /\ webhooks_out[id].attempt_count < 3]_vars

C26_ResubmitStep ==
    [][\A w \in Workers :
          workers[w].pc = "sweep_loop" /\ workers'[w].pc = "send"
          => /\ workers'[w].webhook \in workers[w].webhooks
             /\ workers'[w].webhooks =
                   workers[w].webhooks \ {workers'[w].webhook}]_vars

C26_ExceptionStep ==
    [][\A w \in Workers :
          workers[w].job = "sweep" /\ workers[w].pc = "raised"
              /\ workers'[w] # workers[w]
          => /\ workers'[w].job = "sweep"
             /\ workers'[w].pc = "sweep_loop"
             /\ workers'[w].webhooks = workers[w].webhooks]_vars

C26_EndStep ==
    [][\A w \in Workers :
          workers[w].job = "sweep" /\ workers'[w].job # "sweep"
          => workers[w].pc = "sweep_loop" /\ workers[w].webhooks = {}]_vars

C30_FalseSendSteps ==
    [][\A w \in Workers :
          workers[w].job = "event" /\ workers[w].pc = "returned"
              /\ workers[w].ret = "false" /\ ctx'[w] # ctx[w]
          => /\ ctx'[w].pc = "done"
             /\ ctx'[w].handler = "returned"
             /\ ctx'[w].result = "returned"
             /\ webhooks_out' = webhooks_out
             /\ rq_jobs' = rq_jobs]_vars

\* A job ends raised only where its handler raised, never after a send that
\* returned.
C30_RaisedOnlyByException ==
    \A w \in Workers :
        ctx[w].kind = "event" /\ ctx[w].result = "raised"
        => ctx[w].handler = "raised"

C30_FailedDeliveryReturns == []C30_RaisedOnlyByException /\ C30_FalseSendSteps

\* The POST of a client.created send was refused, the record shows the
\* failure, and process_event has returned normally.
C30_Witness ==
    /\ ctx["w1"].kind = "event" /\ ctx["w1"].pc = "done"
    /\ ctx["w1"].event_type = "client.created"
    /\ ctx["w1"].result = "returned"
    /\ webhooks_out # <<>>
    /\ webhooks_out[Len(webhooks_out)].status = "queued"
    /\ webhooks_out[Len(webhooks_out)].attempt_count = 2
    /\ webhooks_out[Len(webhooks_out)].last_error # None
    /\ audit[Len(audit)].outcome = "fail"

(***************************************************************************)
(* C27. Whatever weekday the first of the month falls on, the date the     *)
(* meetup job computes, first Tuesday plus seven days, is a Tuesday with   *)
(* day-of-month in 8..14 and with exactly one Tuesday before it in the     *)
(* month; the job takes its announce branch on that date and no other.     *)
(***************************************************************************)
TuesdaysBefore(day, first_weekday) ==
    { k \in 1 .. (day - 1) : (first_weekday + k - 1) % 7 = 1 }

C27_SecondTuesdayComputed ==
    LET second_tuesday == SecondTuesday(today)
    IN  /\ second_tuesday \in 8 .. 14
        /\ (today.first_weekday + second_tuesday - 1) % 7 = 1
        /\ Cardinality(TuesdaysBefore(second_tuesday, today.first_weekday)) = 1
        /\ \A i \in DOMAIN rq_jobs :
              rq_jobs[i].func = "schedule_krc_meetup_announcement"
                  /\ rq_jobs[i].status # "queued"
              => ( (rq_jobs[i].status = "failed" \/ rq_jobs[i].published = 1)
                   <=> IsSecondTuesday(rq_jobs[i].ran_on, today.first_weekday) )

\* The month starts on a Wednesday and the job took its announce branch on
\* the 14th.
C27_Witness ==
    /\ today.first_weekday = 2
    /\ \E i \in DOMAIN rq_jobs :
          /\ rq_jobs[i].func = "schedule_krc_meetup_announcement"
          /\ rq_jobs[i].status = "failed"
          /\ rq_jobs[i].ran_on = 14

(***************************************************************************)
(* C21. Registration is idempotent: however often setup_scheduled_jobs has *)
(* run, registration has put each trigger function on the queues, hence up *)
(* for execution, at most as often as a single run does, which is once;    *)
(* and the meetup function has been executed for registration at most once.*)
(***************************************************************************)
C21_RegistrationIdempotent ==
    \A t \in DOMAIN Triggers :
        /\ Cardinality(EnqueuedAt(Triggers[t].func, 0)) <= 1
        /\ Cardinality({ i \in EnqueuedAt(Triggers[t].func, 0) :
                            rq_jobs[i].status # "queued" }) <= 1

(***************************************************************************)
(* The daily expiry check: schedule_membership_expiry_check, publishing    *)
(* through EventPublisher and JobManager.enqueue_job.  Dates are day       *)
(* numbers; today.day is the number of the current date.                   *)
(***************************************************************************)
MaxQueued == 4

EXPIRY_WINDOW_DAYS == 30

ExpiryToday == 5

\* Memberships ending the day before today, today, on the cutoff date and the
\* day after it.
ExpiryRows ==
    { [starts_on |-> 1, ends_on |-> e] : e \in {4, 5, 35, 36} }

ExpiryLists ==
    {<<>>} \cup { <<m>> : m \in ExpiryRows }
           \cup { <<m, n>> : m \in ExpiryRows, n \in ExpiryRows }

\* Mutant: the cutoff date itself is left out.
ExpiringSoon_BeforeCutoff(membership, day) ==
    /\ membership.ends_on < day + EXPIRY_WINDOW_DAYS
    /\ membership.ends_on >= day

\* The filter of the query: ends_on <= cutoff_date and ends_on >= today.
ExpiringSoon(membership, day) ==
    /\ membership.ends_on <= day + EXPIRY_WINDOW_DAYS
    /\ membership.ends_on >= day

\* The rows the query returns, each named by its client and position.
ExpiringMemberships(day) ==
    { m \in Clients \X (1 .. 2) :
         /\ m[2] \in DOMAIN memberships[m[1]]
         /\ ExpiringSoon(memberships[m[1]][m[2]], day) }

\* selected_queue.enqueue: the backend takes the job or the call raises.
EnqueueOutcomes == {"returned", "raised"}

\* JobManager.enqueue_job and EventPublisher.publish_event have no handler
\* around the enqueue: they end as it ends.
EnqueueJobOutcome(enqueue_outcome) == enqueue_outcome
PublishEventOutcome(enqueue_outcome) == EnqueueJobOutcome(enqueue_outcome)

\* schedule_membership_expiry_check: except Exception logs the error and the
\* function returns.
ProducerOutcome(publish_outcome) == "returned"

StartExpiryCheck(w) ==
    /\ workers[w].pc = "idle"
    /\ ctx[w].kind = "none"
    /\ Len(rq_jobs) + Cardinality(ExpiringMemberships(today.day)) <= MaxQueued
    /\ ctx' = [ctx EXCEPT ![w] =
                  [IdleCtx EXCEPT !.kind = "expiry", !.pc = "loop",
                                  !.todo = ExpiringMemberships(today.day)]]
    /\ UNCHANGED <<worker_settings, webhooks_out, workers, pool, table_capacity,
                   audit, feature_flags, ggleap, memberships, today, ext_groups,
                   service_mode, rq_jobs, cron>>

\* for membership in expiring_memberships: EventPublisher.membership_expiring
ExpiryPublish(w) ==
    /\ ctx[w].kind = "expiry"
    /\ ctx[w].pc = "loop"
    /\ \E membership \in ctx[w].todo, enqueue_outcome \in EnqueueOutcomes :
          IF PublishEventOutcome(enqueue_outcome) = "returned"
          THEN /\ rq_jobs' = Append(rq_jobs,
                                NewJob("process_event", "membership.expiring_30d",
                                       "default", 0))
               /\ ctx' = [ctx EXCEPT ![w].todo = @ \ {membership},
                                     ![w].published = Append(@, membership)]
          ELSE /\ rq_jobs' = rq_jobs
               /\ ctx' = [ctx EXCEPT
                            ![w].pc = "done",
                            ![w].error = "enqueue failed",
                            ![w].result =
                                ProducerOutcome(PublishEventOutcome(enqueue_outcome))]
    /\ UNCHANGED <<worker_settings, webhooks_out, workers, pool, table_capacity,
                   audit, feature_flags, ggleap, memberships, today, ext_groups,
                   service_mode, cron>>

\* The loop is through: the count is logged and the function returns.
ExpiryLoopEnd(w) ==
    /\ ctx[w].kind = "expiry"
    /\ ctx[w].pc = "loop"
    /\ ctx[w].todo = {}
    /\ ctx' = [ctx EXCEPT ![w].pc = "done", ![w].result = "returned"]
    /\ UNCHANGED <<worker_settings, webhooks_out, workers, pool, table_capacity,
                   audit, feature_flags, ggleap, memberships, today, ext_groups,
                   service_mode, rq_jobs, cron>>

ExpiryEnd(w) ==
    /\ ctx[w].kind = "expiry"
    /\ ctx[w].pc = "done"
    /\ ctx' = [ctx EXCEPT ![w] = IdleCtx]
    /\ UNCHANGED <<worker_settings, webhooks_out, workers, pool, table_capacity,
                   audit, feature_flags, ggleap, memberships, today, ext_groups,
                   service_mode, rq_jobs, cron>>

ExpiryNext ==
    \E w \in pool :
        \/ StartExpiryCheck(w) \/ ExpiryPublish(w) \/ ExpiryLoopEnd(w)
        \/ ExpiryEnd(w)

ExpiryInit ==
    /\ worker_settings \in Settings
    /\ worker_settings.ZAPIER_MODE = "dev_log"
    /\ worker_settings.ZAPIER_CATCH_HOOK_URL = ""
    /\ worker_settings.ZAPIER_HMAC_SECRET = ""
    /\ webhooks_out = <<>>
    /\ workers = [w \in Workers |-> IdleFrame]
    /\ pool = {"w1"}
    /\ table_capacity = 0
    /\ audit = <<>>
    /\ feature_flags = DefaultFlags
    /\ ggleap = [api_key |-> "", links |-> {}, groups |-> {}]
    /\ memberships \in [Clients -> ExpiryLists]
    /\ today = [day |-> ExpiryToday, first_weekday |-> 0]
    /\ ext_groups = [c \in Clients |-> {}]
    /\ service_mode = "reliable"
    /\ ctx = [w \in Workers |-> IdleCtx]
    /\ rq_jobs = <<>>
    /\ cron = <<>>

ExpirySpec == ExpiryInit /\ [][ExpiryNext]_vars

(***************************************************************************)
(* C22. A failed enqueue is never swallowed: it propagates out of          *)
(* enqueue_job, publish_event and the producer that called them, so no     *)
(* producer completes normally after an event it tried to publish was      *)
(* dropped.                                                                *)
(***************************************************************************)
C22_EnqueueFailurePropagates ==
    \A w \in Workers :
        ctx[w].kind = "expiry" /\ ctx[w].pc = "done" /\ ctx[w].error # ""
        => ctx[w].result = "raised"

\* How often the run of worker w has published an event for this membership.
PublishedFor(w, membership) ==
    Cardinality({ i \in DOMAIN ctx[w].published :
                     ctx[w].published[i] = membership })

\* The memberships on file.
AllMemberships ==
    { m \in Clients \X (1 .. 2) : m[2] \in DOMAIN memberships[m[1]] }

MaxJobs == 3

\* create_worker(['high', 'default', 'low']): the worker's queues, in the
\* order it looks at them.
QueueOrder == <<"high", "default", "low">>

QueueNames == { QueueOrder[k] : k \in DOMAIN QueueOrder }

\* Job ids; one that no job on the queues has is unknown to Job.fetch.
JobIds == 1 .. MaxJobs

\* Job.fetch(job_id): the job is found, there is no such job, or Redis fails.
FetchOutcomes == {"found", "raised"}

\* job.retry() is called with no arguments. RQ declares
\* Job.retry(queue, pipeline), so the call raises TypeError on a release
\* that has the method and AttributeError on one that has not; a release
\* taking the call re-enqueues the job.
JobRetryOutcomes == {"requeued", "raised"}

\* How the function a job runs ends.
JobRunOutcomes == {"finished", "failed"}

QueuedJob(id, queue) ==
    [id |-> id, func |-> "process_event", queue |-> queue,
     status |-> "queued", worker |-> ""]

JobsOn(queue) == { i \in DOMAIN rq_jobs : rq_jobs[i].queue = queue }

PendingOn(queue) ==
    { i \in JobsOn(queue) : rq_jobs[i].status = "queued" }

IdsInUse == { rq_jobs[i].id : i \in DOMAIN rq_jobs }

FreeId == CHOOSE id \in JobIds :
              /\ id \notin IdsInUse
              /\ \A other \in JobIds \ IdsInUse : id <= other

\* The sequence without its i-th element.
RemoveAt(seq, i) ==
    [k \in 1 .. (Len(seq) - 1) |-> IF k < i THEN seq[k] ELSE seq[k + 1]]

\* Worker.dequeue_job_and_maintain_ttl over [high, default, low]: the first
\* queue of the list that has a pending job.
DequeueLane ==
    LET k == CHOOSE k \in DOMAIN QueueOrder :
                 /\ PendingOn(QueueOrder[k]) # {}
                 /\ \A h \in DOMAIN QueueOrder :
                       h < k => PendingOn(QueueOrder[h]) = {}
    IN  QueueOrder[k]

\* The oldest pending job of a queue.
HeadOf(queue) ==
    CHOOSE i \in PendingOn(queue) : \A j \in PendingOn(queue) : i <= j

RunningOn(w) ==
    { i \in DOMAIN rq_jobs : rq_jobs[i].status = "started"
                              /\ rq_jobs[i].worker = w }

\* JobManager.enqueue_job(func, args, kwargs, queue)
EnqueueJob ==
    /\ Len(rq_jobs) < MaxJobs
    /\ \E queue \in QueueNames :
          rq_jobs' = Append(rq_jobs, QueuedJob(FreeId, queue))
    /\ UNCHANGED <<worker_settings, webhooks_out, workers, pool, table_capacity,
                   audit, feature_flags, ggleap, memberships, today, ext_groups,
                   service_mode, ctx, cron>>

\* worker.work(): an idle worker takes the next job.
WorkerTake(w) ==
    /\ w \in pool
    /\ RunningOn(w) = {}
    /\ \E queue \in QueueNames : PendingOn(queue) # {}
    /\ rq_jobs' = [rq_jobs EXCEPT ![HeadOf(DequeueLane)].status = "started",
                                  ![HeadOf(DequeueLane)].worker = w]
    /\ UNCHANGED <<worker_settings, webhooks_out, workers, pool, table_capacity,
                   audit, feature_flags, ggleap, memberships, today, ext_groups,
                   service_mode, ctx, cron>>

\* The job's function returns or raises: a finished job leaves the queue's
\* books, a failed one stays in the failed registry.
JobEnd(w) ==
    /\ w \in pool
    /\ RunningOn(w) # {}
    /\ \E outcome \in JobRunOutcomes :
          LET i == CHOOSE i \in RunningOn(w) : TRUE
          IN  rq_jobs' =
                 IF outcome = "finished"
                 THEN RemoveAt(rq_jobs, i)
                 ELSE [rq_jobs EXCEPT ![i].status = "failed", ![i].worker = ""]
    /\ UNCHANGED <<worker_settings, webhooks_out, workers, pool, table_capacity,
                   audit, feature_flags, ggleap, memberships, today, ext_groups,
                   service_mode, ctx, cron>>

\* job.is_failed of the job with this id; FALSE when there is none.
IsFailed(jobs, job_id) ==
    \E i \in DOMAIN jobs : jobs[i].id = job_id /\ jobs[i].status = "failed"

\* The queues after a job.retry() that re-enqueues: the job is pending
\* again, behind the jobs of its queue.
Requeued(jobs, job_id) ==
    LET i == CHOOSE i \in DOMAIN jobs : jobs[i].id = job_id
    IN  Append(RemoveAt(jobs, i), QueuedJob(job_id, jobs[i].queue))

\* JobManager.retry_failed_job: what it returns, what it leaves on the
\* queues, and the error its except clause logged.
RetryResult(jobs, job_id, fetch_outcome, retry_outcome) ==
    IF fetch_outcome = "raised" \/ job_id \notin { jobs[i].id : i \in DOMAIN jobs }
    THEN [ret |-> "false", jobs |-> jobs, error |-> "fetch failed"]
    ELSE IF ~IsFailed(jobs, job_id)
    THEN [ret |-> "false", jobs |-> jobs, error |-> ""]
    ELSE IF retry_outcome = "raised"
    THEN [ret |-> "false", jobs |-> jobs, error |-> "retry failed"]
    ELSE [ret |-> "true", jobs |-> Requeued(jobs, job_id), error |-> ""]

\* A process outside the worker pool calls retry_failed_job(job_id).
RetryFailedJob(w) ==
    /\ w \notin pool
    /\ ctx[w].kind = "none"
    /\ \E job_id \in JobIds, fetch_outcome \in FetchOutcomes,
          retry_outcome \in JobRetryOutcomes :
          LET r == RetryResult(rq_jobs, job_id, fetch_outcome, retry_outcome)
          IN  /\ rq_jobs' = r.jobs
              /\ ctx' = [ctx EXCEPT ![w] =
                           [IdleCtx EXCEPT !.kind = "retry", !.pc = "done",
                                           !.todo = {job_id},
                                           !.result = r.ret,
                                           !.error = r.error]]
    /\ UNCHANGED <<worker_settings, webhooks_out, workers, pool, table_capacity,
                   audit, feature_flags, ggleap, memberships, today, ext_groups,
                   service_mode, cron>>

\* The caller has its answer.
RetryReturn(w) ==
    /\ ctx[w].kind = "retry"
    /\ ctx[w].pc = "done"
    /\ ctx' = [ctx EXCEPT ![w] = IdleCtx]
    /\ UNCHANGED <<worker_settings, webhooks_out, workers, pool, table_capacity,
                   audit, feature_flags, ggleap, memberships, today, ext_groups,
                   service_mode, rq_jobs, cron>>

LaneNext ==
    \/ EnqueueJob
    \/ \E w \in Workers :
          \/ WorkerTake(w) \/ JobEnd(w) \/ RetryFailedJob(w) \/ RetryReturn(w)

\* A Delivery Record left by a send whose POST failed once.
FailedOnceRecord ==
    update_webhook_failure(
        create_webhook_record("client.created",
            Envelope("2025-01-15T10:00:00", "client.created",
                     [client_id |-> "c1", message_type |-> "welcome_sms"])),
        "HTTP 500: boom")

FailedOnceAudit ==
    [NewAudit(0, "client.created",
              [client_id |-> "c1", message_type |-> "welcome_sms"])
        EXCEPT !.posts = 1, !.finalized = 1, !.outcome = "fail"]

\* One worker over the three queues, no job yet; the Delivery Record table
\* is empty or holds one record of an earlier failed delivery.
LaneInit ==
    /\ worker_settings \in Settings
    /\ worker_settings.ZAPIER_MODE = "production"
    /\ worker_settings.ZAPIER_CATCH_HOOK_URL # ""
    /\ worker_settings.ZAPIER_HMAC_SECRET = ""
    /\ \E n \in 0 .. 1 :
          /\ webhooks_out = [k \in 1 .. n |-> FailedOnceRecord]
          /\ audit = [k \in 1 .. n |-> FailedOnceAudit]
          /\ table_capacity = n
    /\ workers = [w \in Workers |-> IdleFrame]
    /\ pool = {"w1"}
    /\ ExtQuiet

LaneSpec == LaneInit /\ [][LaneNext]_vars

\* The worker's loop never idles with a job pending, and a running job ends
\* (by itself or by its timeout).
FairLaneSpec ==
    /\ LaneSpec
    /\ \A w \in Workers : WF_vars(WorkerTake(w)) /\ WF_vars(JobEnd(w))

\* The job id of the retry_failed_job call worker w has just made.
RetriedId(w) == CHOOSE job_id \in ctx[w].todo : TRUE

(***************************************************************************)
(* C23. retry_failed_job(job_id) returns false and changes nothing when    *)
(* the job is not failed or cannot be fetched; when the job is failed it   *)
(* returns true and the job is pending again; in neither case is a         *)
(* Delivery Record modified.                                               *)
(***************************************************************************)
C23_RetryFailedJob ==
    [][\A w \in Workers :
          ctx[w].kind = "none" /\ ctx'[w].kind = "retry"
          => /\ webhooks_out' = webhooks_out
             /\ IF IsFailed(rq_jobs, RetriedId(w)')
                      /\ ctx'[w].error # "fetch failed"
                THEN /\ ctx'[w].result = "true"
                     /\ \E i \in DOMAIN rq_jobs' :
                           /\ rq_jobs'[i].id = RetriedId(w)'
                           /\ rq_jobs'[i].status = "queued"
                ELSE /\ ctx'[w].result = "false"
                     /\ rq_jobs' = rq_jobs]_vars

\* The jobs the step of worker w takes from pending to started.
TakenBy(w) ==
    { i \in DOMAIN rq_jobs :
         /\ rq_jobs[i].status = "queued"
         /\ \E j \in DOMAIN rq_jobs' : /\ rq_jobs'[j].id = rq_jobs[i].id
                                       /\ rq_jobs'[j].status = "started"
                                       /\ rq_jobs'[j].worker = w }

LanePriority(queue) ==
    CHOOSE k \in DOMAIN QueueOrder : QueueOrder[k] = queue

\* The worker takes a job only from the highest-priority lane that has one
\* pending.
C24_HigherLaneFirst ==
    [][\A w \in Workers : \A i \in TakenBy(w) :
          \A queue \in QueueNames :
              LanePriority(queue) < LanePriority(rq_jobs[i].queue)
              => PendingOn(queue) = {}]_vars

\* A job pending on the low lane is eventually taken by the worker.
C24_LowLaneRuns ==
    \A id \in JobIds :
        (\E i \in DOMAIN rq_jobs : /\ rq_jobs[i].id = id
                                   /\ rq_jobs[i].queue = "low"
                                   /\ rq_jobs[i].status = "queued")
        ~> ~(\E i \in DOMAIN rq_jobs : /\ rq_jobs[i].id = id
                                       /\ rq_jobs[i].status = "queued")

(***************************************************************************)
(* C24. The worker over the lanes high, default, low takes a pending job   *)
(* of a higher lane first, and a job pending on low is nevertheless        *)
(* eventually executed, even while jobs keep arriving on the higher lanes. *)
(***************************************************************************)
C24_PriorityWithoutStarvation == C24_HigherLaneFirst /\ C24_LowLaneRuns
====
